---- MODULE Spec2Model ----
(***************************************************************************)
(* Verification model of the csl-experiments host drivers and analysis     *)
(* scripts: the cliff-distribution layout transform, the SUMMA grid run,   *)
(* the 1-D broadcast test, the host/runtime call sequence, the bandwidth   *)
(* analysis driver and the sequential-vs-pipelined timing comparison.      *)
(*                                                                         *)
(* Each subsystem has its own variables, initial condition, actions and    *)
(* specification; a subsystem that a specification does not exercise stays *)
(* in its "off" state.                                                     *)
(***************************************************************************)
EXTENDS Integers, Sequences, FiniteSets, TLC

VARIABLES
    \* ---- layout transform (summa_manual_multicasting/run.py 108-120, 196-204)
    lpc,        \* "off" | "start" | "tiled" | "gathered" | "prepared"
    h, w,       \* grid height and width (run.py 77-78)
    tileRows,   \* rows of one cell's tile
    tileCols,   \* columns of one cell's tile
    X,          \* the host matrix, an ndarray [shape, data] in C order
    X3,         \* the forward transform's result, shape (h, w, tileRows*tileCols)
    X1,         \* the gather transform's result, shape (R, C)
    A_prepared, \* the GEMV driver's streamed array (gemv run.py 68), flat
    \* ---- compare_versions (analyze_pipeline_benefit.py)
    cpc,        \* "off" | "args" | "done" | "modelled" | "predicted"
    cargs,      \* [P, Mt, Kt, Nt]
    cres,       \* the dictionary compare_versions returns ("done"), or what
                \* performance_model.total_cycles returns ("modelled")
    \* ---- analyze_bandwidth_results.py main
    apc,        \* "off" | "start" | "args_ok" | "loaded" | "fit_h2d" | "fit_d2h"
                \* | "plots" | "complete" | "exit1" | "crashed"
    aenv,       \* [argc, dir_exists]: the command line and the file system
    n_samples,  \* [h2d, d2h]: the number of loaded results of each direction
    warned,     \* the directions fit_linear_model warned about
    coeffs,     \* [h2d, d2h]: None, "unset" or "fitted"
    \* ---- host driver and runtime (run.py of the SUMMA and GEMV drivers)
    variant,    \* "off" | "summa" | "gemv" | "original" | "broadcast_1d"
    hstate,     \* "reshape" | "issuing" | "blocked" | "size_check" | "gather" | "verify"
                \* | "finally" | "stop" | "exit"
    hidx,       \* index of the next call of HostProgram(variant)
    cmdq,       \* the runtime's command stream: indices issued, not yet complete
    hparams,    \* out.json: [P, Mt, Nt]; the binary's own: [binMt, binNt];
                \* [M, N]: the shape of the matrix the driver tiles
    cellState,  \* per cell: "idle" | "running" | "done"
    loaded,     \* the symbols whose host-to-grid transfer has completed
    hostBuf,    \* what the readbacks wrote to the host: symbol -> snapshot
    herror,     \* None or the exception that ended the try block
    printed,    \* the lines printed that matter: a set of strings
    exitStatus, \* None while running, then the process's exit status
    calls,      \* the runtime calls made since runner.run() returned, in order
    \* ---- the SUMMA run: host staging, the grid's cells, the gathered result
    strategy,   \* "off" | "sequential" | "pipelined"
    params,     \* out.json's params: [P, Mt, Kt, Nt]
    observed,   \* the cells whose COMPUTE interleaves with the other cells
    A, B,       \* the host matrices (M x K and K x N)
    spc,        \* host: "stage" | "loading" | "launched" | "gathered"
    onDevice,   \* the symbols memcpy_h2d has delivered
    tileA, tileB, \* per cell: its A-tile and B-tile, flat, column-major
    acc,        \* per cell: its C accumulator tile, flat, column-major
    phase,      \* per cell: IDLE, LOAD_TILE, WAIT_BROADCAST, COMPUTE, DONE
    step,       \* per cell: the step k it waits for or computes
    chan,       \* in flight: [A|B][cell][colour] -> queue of [step, owner]
    pend,       \* [A|B][cell] -> the colours on which a receive is posted
    buf,        \* [A|B][cell][colour] -> Empty or the [step, owner] received
    overwritten,\* the receive buffers overwritten before being consumed
    broken,     \* the faulty links: <<operand, receiving cell>>
    lost,       \* the broadcasts a faulty link dropped: <<operand, cell, step>>
    C,          \* the gathered result (M x N), empty before the readback
    \* ---- the 1-D broadcast test: host, the row of PEs, the verdict
    bpc,        \* host: "off" | "start" | "loaded" | "launched" | "read"
                \*       | "stopped" | "exit"
    bparams,    \* out.json's params: [P, N]
    data,       \* the host's seed data, one row per PE
    devData,    \* per PE: its `data` buffer
    result,     \* per PE: its `result` buffer
    round,      \* per PE: the broadcast round it is at (P: finished)
    inbox,      \* per PE: the broadcasts in flight towards it
    hostResult, \* the host's result array after the readback
    bprinted,   \* what the test has printed
    bexit,      \* None while running, then the exit status
    \* ---- the cycle-count report of the SUMMA driver (run.py 125-179)
    tpc,        \* "off" | "launched" | "unpacked" | "adjusted" | "reported"
    tP,         \* the grid is tP x tP
    float_conv, \* what the platform's float conversions do to a signalling NaN
    tsc,        \* per cell: the counts it recorded, [start, end, ref]
    time_memcpy,  \* per cell: the three 32-bit words of `time_memcpy`
    time_ref_mem, \* per cell: the two 32-bit words of `time_ref`
    time_start, time_end, time_ref, \* the host's arrays (run.py 143-174)
    max_cycle_count, \* the reported "Max cycle count" (run.py 179)
    \* ---- the timeline parsers (parse_task_timeline.py, parse_color_link_timeline.py)
    ppc,        \* "off" | "reading" | "returned"
    parser,     \* "instr" (parse_instr_log) | "link" (parse_log_file)
    log,        \* the lines of the log file
    lineno,     \* the line the loop reads next
    current,    \* current_task / current_pair; <<>> for None
    current_start, current_end, \* 0 while current is None
    ranges      \* task_ranges / pair_ranges

layoutVars  == <<lpc, h, w, tileRows, tileCols, X, X3, X1, A_prepared>>
compareVars == <<cpc, cargs, cres>>
analysisVars == <<apc, aenv, n_samples, warned, coeffs>>
hostVars == <<calls, variant, hstate, hidx, cmdq, hparams, cellState, loaded, hostBuf,
              herror, printed, exitStatus>>
summaVars == <<strategy, params, observed, A, B, spc, onDevice, tileA, tileB, acc,
               phase, step, chan, pend, buf, overwritten, broken, lost, C>>
bcastVars == <<bpc, bparams, data, devData, result, round, inbox, hostResult,
               bprinted, bexit>>
timingVars == <<tpc, tP, float_conv, tsc, time_memcpy, time_ref_mem, time_start,
                time_end, time_ref, max_cycle_count>>
parseVars == <<ppc, parser, log, lineno, current, current_start, current_end,
               ranges>>
vars == <<layoutVars, compareVars, analysisVars, hostVars, summaVars,
          bcastVars, timingVars, parseVars>>

\* what the actions of one subsystem leave alone
notLayout   == <<compareVars, analysisVars, hostVars, summaVars, bcastVars, timingVars,
                 parseVars>>
notCompare  == <<layoutVars, analysisVars, hostVars, summaVars, bcastVars, timingVars,
                 parseVars>>
notAnalysis == <<layoutVars, compareVars, hostVars, summaVars, bcastVars, timingVars,
                 parseVars>>
notHost     == <<layoutVars, compareVars, analysisVars, summaVars, bcastVars, timingVars,
                 parseVars>>
notSumma    == <<layoutVars, compareVars, analysisVars, hostVars, bcastVars, timingVars,
                 parseVars>>
notBcast    == <<layoutVars, compareVars, analysisVars, hostVars, summaVars, timingVars,
                 parseVars>>
notTiming   == <<layoutVars, compareVars, analysisVars, hostVars, summaVars,
                 bcastVars, parseVars>>
notParse    == <<layoutVars, compareVars, analysisVars, hostVars, summaVars,
                 bcastVars, timingVars>>

None == "None"

-----------------------------------------------------------------------------
(* Bounds of the model.                                                    *)
MaxGridDim == 2     \* grid height/width of the layout runs: 1..MaxGridDim
MaxTileDim == 2     \* tile rows/columns of the layout runs: 1..MaxTileDim
MaxSeed    == 2     \* matrices are drawn from MaxSeed+1 start values
MaxStride  == 2     \* ... and 1..MaxStride strides
MaxCmpP    == 4     \* compare_versions: P in 1..MaxCmpP
MaxCmpTile == 3     \* compare_versions: Mt, Kt, Nt in 1..MaxCmpTile
MaxSamples == 4     \* analysis: 0..MaxSamples result files per direction
MaxHostP   == 2     \* host driver: P in 1..MaxHostP
MaxHostTile == 2    \* host driver: Mt, Nt and the binary's Mt, Nt
MaxRingP   == 4     \* 1-D broadcast: P in 1..MaxRingP
MaxRingN   == 6     \* 1-D broadcast: N in 1..MaxRingN
MaxP       == 3     \* SUMMA run: P in 1..MaxP
MaxFineP   == 2     \* SUMMA run: up to this P every cell's COMPUTE is observed
MaxElems   == 4     \* SUMMA run: P*Mt, P*Kt, P*Nt <= max(MaxElems, P)
MaxStallP  == 2     \* SUMMA run with a link fault: P in 2..MaxStallP
MaxSetup   == 200   \* compute-cycle form: setup constants 0..MaxSetup
MaxPerFmacs == 100  \* compute-cycle form: per-FMACS constants 0..MaxPerFmacs
MaxKt      == 64    \* compute_iter: monotonicity in Kt checked for Kt in 1..MaxKt
MaxLines   == 4     \* timeline parsers: logs of up to MaxLines lines
MaxTimingP == 2     \* cycle-count report: the grid is P x P, P in 1..MaxTimingP

-----------------------------------------------------------------------------
(* numpy ndarrays: [shape |-> <<d1,..,dn>>, data |-> the elements in C     *)
(* (row-major) order].  Indices are 0-based as in numpy; sequences are     *)
(* 1-based, hence the +1 where a sequence is read.                         *)

RECURSIVE Prod(_)
Prod(s) == IF s = <<>> THEN 1 ELSE Head(s) * Prod(Tail(s))

\* the C-order stride of axis i (1-based axis number) of a shape
Stride(shape, i) == Prod(SubSeq(shape, i + 1, Len(shape)))

\* flat offset -> multi-index
Unravel(shape, n) ==
    [i \in 1..Len(shape) |-> (n \div Stride(shape, i)) % shape[i]]

RECURSIVE RavelFrom(_, _, _)
RavelFrom(shape, idx, i) ==
    IF i > Len(shape) THEN 0
    ELSE idx[i] * Stride(shape, i) + RavelFrom(shape, idx, i + 1)

\* multi-index -> flat offset
Ravel(shape, idx) == RavelFrom(shape, idx, 1)

\* ndarray.reshape(newshape) of a C-contiguous array: same elements, new shape
reshape(a, newshape) == [shape |-> newshape, data |-> a.data]

\* ndarray.transpose(axes): axis i of the result is axis axes[i] of a
transpose(a, axes) ==
    LET n   == Len(axes)
        s2  == [i \in 1..n |-> a.shape[axes[i] + 1]]
        src(k) ==
            LET j == Unravel(s2, k)
            IN  Ravel(a.shape,
                      [d \in 1..n |-> j[CHOOSE i \in 1..n : axes[i] + 1 = d]])
    IN  [shape |-> s2,
         data  |-> [k \in 1..Prod(s2) |-> a.data[src(k - 1) + 1]]]

\* np.arange-like host matrices: element i (0-based, C order) is s + k*i
Matrix(rows, cols, s, k) ==
    [shape |-> <<rows, cols>>,
     data  |-> [i \in 1..(rows * cols) |-> s + k * (i - 1)]]

-----------------------------------------------------------------------------
(* The cliff distribution: A1/A2/A3 (forward) and C3/C2/C1 (gather).       *)

\* a plausible slip: tile (i, j) cut at row i and column j instead of at row
\* i*tr and column j*tc, so that neighbouring tiles overlap
toTilesOverlapping(a, gh, gw, tr, tc) ==
    [shape |-> <<gh, gw, tr * tc>>,
     data  |-> [n \in 1..(gh * gw * tr * tc) |->
                  LET j == Unravel(<<gh, gw, tc, tr>>, n - 1)
                  IN  a.data[Ravel(a.shape, <<j[1] + j[4], j[2] + j[3]>>) + 1]]]

\* a plausible slip: the tiles left row-major
toTilesRowMajor(a, gh, gw, tr, tc) ==
    LET A1 == reshape(a, <<gh, tr, gw, tc>>)
        A2 == transpose(A1, <<0, 2, 1, 3>>)
    IN  reshape(A2, <<gh, gw, tr * tc>>)

\* A1 = A.reshape(h, Mt, w, Kt); A2 = A1.transpose(0, 2, 3, 1);
\* A3 = A2.reshape(h, w, Mt*Kt)
toTiles(a, gh, gw, tr, tc) ==
    LET A1 == reshape(a, <<gh, tr, gw, tc>>)
        A2 == transpose(A1, <<0, 2, 3, 1>>)
    IN  reshape(A2, <<gh, gw, tr * tc>>)

\* a plausible slip: the axes of the inverse permutation in the wrong order
fromTilesRowMajor(c, gh, gw, tr, tc) ==
    LET C3 == reshape(c, <<gh, gw, tr, tc>>)
        C2 == transpose(C3, <<0, 2, 1, 3>>)
    IN  reshape(C2, <<gh * tr, gw * tc>>)

\* C3 = C3_1d.reshape((P, P, Nt, Mt)); C2 = C3.transpose(0, 3, 1, 2);
\* C1 = C2.reshape(M, N)
fromTiles(c, gh, gw, tr, tc) ==
    LET C3 == reshape(c, <<gh, gw, tc, tr>>)
        C2 == transpose(C3, <<0, 3, 1, 2>>)
    IN  reshape(C2, <<gh * tr, gw * tc>>)

LayoutOff ==
    /\ lpc = "off" /\ h = 0 /\ w = 0 /\ tileRows = 0 /\ tileCols = 0
    /\ X = None /\ X3 = None /\ X1 = None /\ A_prepared = None

LayoutInit ==
    /\ lpc = "start"
    /\ h \in 1..MaxGridDim /\ w \in 1..MaxGridDim
    /\ tileRows \in 1..MaxTileDim /\ tileCols \in 1..MaxTileDim
    /\ \E s \in 0..MaxSeed, k \in 1..MaxStride :
          X = Matrix(h * tileRows, w * tileCols, s, k)
    /\ X3 = None /\ X1 = None /\ A_prepared = None

\* the forward transform of the host matrix
Forward ==
    /\ lpc = "start"
    /\ X3' = toTiles(X, h, w, tileRows, tileCols)
    /\ lpc' = "tiled"
    /\ UNCHANGED <<h, w, tileRows, tileCols, X, X1, A_prepared>>
    /\ UNCHANGED notLayout

\* the gather transform of the flat per-cell buffers
Gather ==
    /\ lpc = "tiled"
    /\ X1' = fromTiles(reshape(X3, <<Prod(X3.shape)>>), h, w, tileRows, tileCols)
    /\ lpc' = "gathered"
    /\ UNCHANGED <<h, w, tileRows, tileCols, X, X3, A_prepared>>
    /\ UNCHANGED notLayout

\* gemv: A_prepared = A.reshape(kernel_y_dim, M_per_PE, kernel_x_dim,
\*                              N_per_PE).transpose(0, 2, 3, 1).ravel()
\* (h, w the grid's kernel_y_dim, kernel_x_dim; the tile M_per_PE x N_per_PE)
Prepare ==
    /\ lpc = "start"
    /\ A_prepared' =
          LET A2 == transpose(reshape(X, <<h, tileRows, w, tileCols>>),
                              <<0, 2, 3, 1>>)
          IN  reshape(A2, <<Prod(A2.shape)>>)
    /\ lpc' = "prepared"
    /\ UNCHANGED <<h, w, tileRows, tileCols, X, X3, X1>>
    /\ UNCHANGED notLayout

LayoutNext == Forward \/ Gather \/ Prepare

-----------------------------------------------------------------------------
(* analyze_pipeline_benefit.py: estimate_timing and compare_versions.      *)
(* The script computes in floating point; the model computes the same      *)
(* rationals exactly, every time scaled by TimeScale = 14*14*14 so that    *)
(* ops/base_ops and data_size/base_data are integers.                      *)

BaseTile      == 14       \* the baseline tile edge of estimate_timing
BaseGemm      == 11897    \* cycles of one baseline GEMM step
CyclesPerData == 30       \* transfer_time = 30 * (data_size / base_data)
HopLatency    == 50       \* fabric_latency = 50 * P
BcastSetup    == 11000    \* broadcast = transfer + latency + 11000
PipelineOverhead == 2000  \* pipeline_overhead
MaxMargin == 100          \* the largest safety margin considered, in cycles
AnchorBroadcast == 11954  \* the baseline's documented broadcast per step
AnchorTotal   == 95405    \* the baseline's documented sequential total
AnchorTolPct  == 1        \* "about": within this many percent

base_ops  == BaseTile * BaseTile * BaseTile
base_data == 2 * (BaseTile * BaseTile)
TimeScale == base_ops

\* a plausible slip: the broadcast estimated without its setup cycles
estimate_timing_no_setup(P, Mt, Kt, Nt) ==
    LET ops       == Mt * Kt * Nt
        data_size == Mt * Kt + Kt * Nt
        gemm      == BaseGemm * ops
        transfer  == CyclesPerData * data_size * (TimeScale \div base_data)
        latency   == HopLatency * P * TimeScale
    IN  [gemm |-> gemm, bcast |-> transfer + latency]

\* estimate_timing(P, Mt, Kt, Nt), both results times TimeScale
estimate_timing(P, Mt, Kt, Nt) ==
    LET ops       == Mt * Kt * Nt
        data_size == Mt * Kt + Kt * Nt
        gemm      == BaseGemm * ops                      \* * TimeScale / base_ops
        transfer  == CyclesPerData * data_size * (TimeScale \div base_data)
        latency   == HopLatency * P * TimeScale
    IN  [gemm |-> gemm, bcast |-> transfer + latency + BcastSetup * TimeScale]

\* a plausible slip: the overhead subtracted instead of added
pipelined_total_minus(P, gemm_time, bcast_time) ==
    bcast_time + P * gemm_time - PipelineOverhead * TimeScale

\* pipelined_total = bcast_time + P * gemm_time + pipeline_overhead
pipelined_total_of(P, gemm_time, bcast_time) ==
    bcast_time + P * gemm_time + PipelineOverhead * TimeScale

\* sequential_total = P * (bcast_time + gemm_time)
sequential_total_of(P, gemm_time, bcast_time) == P * (bcast_time + gemm_time)

\* a plausible slip: the comparison of the two totals reversed
winner_reversed(seq, pip) == IF pip - seq > 0 THEN "Pipelined" ELSE "Sequential"

\* 'winner': 'Pipelined' if speedup > 0 else 'Sequential'; speedup > 0 iff
\* its numerator sequential_total - pipelined_total is > 0, sequential_total
\* being positive
winner_of(seq, pip) == IF seq - pip > 0 THEN "Pipelined" ELSE "Sequential"

\* compare_versions(P, Mt, Kt, Nt)
compare_versions(P, Mt, Kt, Nt) ==
    LET t    == estimate_timing(P, Mt, Kt, Nt)
        seq  == sequential_total_of(P, t.gemm, t.bcast)
        pip  == pipelined_total_of(P, t.gemm, t.bcast)
        savings == (P - 1) * t.bcast - PipelineOverhead * TimeScale
    IN  [P |-> P, Mt |-> Mt, Kt |-> Kt, Nt |-> Nt,
         gemm_per_step |-> t.gemm, bcast_per_step |-> t.bcast,
         sequential_total |-> seq, pipelined_total |-> pip,
         savings |-> savings,
         speedup_num |-> seq - pip,
         winner |-> winner_of(seq, pip)]

-----------------------------------------------------------------------------
(* summa_manual_multicasting/performance_model.py: integer arithmetic.     *)

RECURSIVE BitXor(_, _)
BitXor(a, b) ==
    IF a = 0 /\ b = 0 THEN 0
    ELSE (((a % 2) + (b % 2)) % 2) + 2 * BitXor(a \div 2, b \div 2)

\* bin(n).count('1')
RECURSIVE PopCount(_)
PopCount(n) == IF n = 0 THEN 0 ELSE (n % 2) + PopCount(n \div 2)

\* compute_iter(Mt, Kt, Nt)
compute_iter(Mt, Kt, Nt) ==
    LET d      == PopCount(BitXor((3 * Kt) \div 2, Kt \div 2))
        b_load == 2 * d - 1 - (Kt % 2) + 8
        fmacs  == (Mt + 1) * 2
        dsd_increment == 14 + 3
        loop_control  == 3
    IN  Kt * Nt * (b_load + fmacs + dsd_increment + loop_control)

\* a plausible slip: the broadcasting cell counted as a destination
receive_hops_square(P) == P * P

\* receive_hops = P * (P - 1)
receive_hops(P) == P * (P - 1)

\* broadcast_iter(P, Mt, Nt)
broadcast_iter(P, Mt, Nt) ==
    LET configure_broadcast  == 62
        wavelet_broadcasting == 2 * (Mt * Nt)
        callback_task        == 13 + 13
    IN  configure_broadcast + wavelet_broadcasting + callback_task
        + receive_hops(P)

\* h2d_memcpy(P, Mt, Kt, Nt)
h2d_memcpy(P, Mt, Kt, Nt) ==
    1300 + Mt * Kt * P * P + 1100 + Kt * Nt * P * P + 330

\* d2h_memcpy(P, Mt, Nt)
d2h_memcpy(P, Mt, Nt) == (Mt * Nt) * 52

\* total_cycles(P, Mt, Kt, Nt): the triple it returns, and its locals
total_cycles(P, Mt, Kt, Nt) ==
    LET compute   == compute_iter(Mt, Kt, Nt)
        broadcast == broadcast_iter(P, Mt, Nt)
        h2d       == h2d_memcpy(P, Mt, Kt, Nt)
        d2h       == d2h_memcpy(P, Mt, Nt)
        kernel_cycles == (P * compute) + ((P - 1) * broadcast)
        io_cycles     == h2d + d2h
        travel_bottom_right == (P - 1) * 2 + (P - 1)
    IN  [P |-> P, compute |-> compute, broadcast |-> broadcast,
         receive_hops |-> receive_hops(P),
         total |-> travel_bottom_right + kernel_cycles + io_cycles,
         kernel_cycles |-> kernel_cycles, io_cycles |-> io_cycles]

\* predict_memcpy.py 52-107: predict_compute_cycles(P, Mt, Kt, Nt,
\* detailed=True); every quantity is an integer, so int(...) changes nothing
predict_compute_cycles(P, Mt, Kt, Nt) ==
    LET setup_per_iter == 120
        fmacs_per_iter == Kt * Nt
        cycles_per_fmacs == 1 + Mt
        fmacs_cycles_per_iter == fmacs_per_iter * cycles_per_fmacs
        overhead_per_fmacs == 43
        overhead_cycles_per_iter == fmacs_per_iter * overhead_per_fmacs
        cycles_per_iter ==
            setup_per_iter + fmacs_cycles_per_iter + overhead_cycles_per_iter
        total == P * cycles_per_iter
    IN  [total_cycles |-> total,
         setup_cycles |-> P * setup_per_iter,
         fmacs_cycles |-> P * fmacs_cycles_per_iter,
         overhead_cycles |-> P * overhead_cycles_per_iter,
         cycles_per_iter |-> cycles_per_iter,
         fmacs_count |-> P * fmacs_per_iter]

-----------------------------------------------------------------------------
CompareOff == cpc = "off" /\ cargs = None /\ cres = None

\* the configurations of analyze_pipeline_benefit.py's test_configs
test_configs ==
    {[P |-> c[1], Mt |-> c[2], Kt |-> c[3], Nt |-> c[4]] :
       c \in {<<4, 14, 14, 14>>, <<6, 14, 14, 14>>, <<8, 14, 14, 14>>,
              <<12, 14, 14, 14>>, <<16, 14, 14, 14>>, <<4, 10, 10, 10>>,
              <<4, 7, 7, 7>>, <<4, 4, 4, 4>>, <<4, 20, 20, 20>>,
              <<4, 28, 28, 28>>}}

\* the configuration of performance_model.py's main
measured_config == [P |-> 180, Mt |-> 12, Kt |-> 12, Nt |-> 12]

\* all small configurations
SmallConfigs ==
    [P : 1..MaxCmpP, Mt : 1..MaxCmpTile, Kt : 1..MaxCmpTile, Nt : 1..MaxCmpTile]

CompareInit ==
    /\ cpc = "args"
    /\ cargs \in SmallConfigs \cup test_configs \cup {measured_config}
    /\ cres = None

\* result = compare_versions(P, Mt, Kt, Nt)
Compare ==
    /\ cpc = "args"
    /\ cargs \in SmallConfigs \cup test_configs
    /\ cres' = compare_versions(cargs.P, cargs.Mt, cargs.Kt, cargs.Nt)
    /\ cpc' = "done"
    /\ UNCHANGED cargs
    /\ UNCHANGED notCompare

\* total, kernel, io = total_cycles(P, Mt, Kt, Nt)
PerformanceModel ==
    /\ cpc = "args"
    /\ cargs \in SmallConfigs \cup {measured_config}
    /\ cres' = total_cycles(cargs.P, cargs.Mt, cargs.Kt, cargs.Nt)
    /\ cpc' = "modelled"
    /\ UNCHANGED cargs
    /\ UNCHANGED notCompare

\* predict_compute_cycles(P, Mt, Kt, Nt, detailed=True)
PredictCompute ==
    /\ cpc = "args"
    /\ cres' = predict_compute_cycles(cargs.P, cargs.Mt, cargs.Kt, cargs.Nt)
    /\ cpc' = "predicted"
    /\ UNCHANGED cargs
    /\ UNCHANGED notCompare

CompareNext == Compare \/ PerformanceModel \/ PredictCompute

-----------------------------------------------------------------------------
(* bandwidth-test/analyze_bandwidth_results.py: main and fit_linear_model. *)

Directions == {"h2d", "d2h"}

\* fit_linear_model(results, direction): the tuple it returns.  With fewer
\* than 3 samples of the direction it prints a warning and returns the pair
\* (None, {}); otherwise the 4-tuple (coeffs, metrics, data, y_pred).
fit_linear_model(n, direction) ==
    IF n[direction] < 3
    THEN [warning |-> TRUE,  ret |-> <<None, "{}">>]
    ELSE [warning |-> FALSE, ret |-> <<"fitted", "metrics", "data", "y_pred">>]

AnalysisOff ==
    /\ apc = "off" /\ aenv = None /\ n_samples = None /\ warned = {}
    /\ coeffs = None

AnalysisInit ==
    /\ apc = "start"
    /\ aenv \in [argc : 1..2, dir_exists : BOOLEAN]
    /\ n_samples \in [Directions -> 0..MaxSamples]
    /\ warned = {}
    /\ coeffs = [d \in Directions |-> "unset"]

\* if len(sys.argv) < 2: sys.exit(1); if not results_dir.exists(): sys.exit(1)
CheckArgs ==
    /\ apc = "start"
    /\ apc' = IF aenv.argc < 2 \/ ~aenv.dir_exists THEN "exit1" ELSE "args_ok"
    /\ UNCHANGED <<aenv, n_samples, warned, coeffs>>
    /\ UNCHANGED notAnalysis

\* results = load_all_results(results_dir); if len(results) == 0: sys.exit(1)
LoadResults ==
    /\ apc = "args_ok"
    /\ apc' = IF n_samples["h2d"] + n_samples["d2h"] = 0 THEN "exit1" ELSE "loaded"
    /\ UNCHANGED <<aenv, n_samples, warned, coeffs>>
    /\ UNCHANGED notAnalysis

\* coeffs_X, metrics_X, data_X, pred_X = fit_linear_model(results, X):
\* unpacking a tuple that is not of length 4 raises ValueError, which main
\* does not catch
FitAndUnpack(direction, from, to) ==
    /\ apc = from
    /\ LET r == fit_linear_model(n_samples, direction)
       IN  /\ warned' = IF r.warning THEN warned \cup {direction} ELSE warned
           /\ IF Len(r.ret) = 4
              THEN /\ coeffs' = [coeffs EXCEPT ![direction] = r.ret[1]]
                   /\ apc' = to
              ELSE /\ coeffs' = coeffs
                   /\ apc' = "crashed"
    /\ UNCHANGED <<aenv, n_samples>>
    /\ UNCHANGED notAnalysis

FitH2D == FitAndUnpack("h2d", "loaded", "fit_h2d")
FitD2H == FitAndUnpack("d2h", "fit_h2d", "fit_d2h")

\* plot_results(results, coeffs_h2d, coeffs_d2h, results_dir)
PlotResults ==
    /\ apc = "fit_d2h"
    /\ apc' = "plots"
    /\ UNCHANGED <<aenv, n_samples, warned, coeffs>>
    /\ UNCHANGED notAnalysis

\* generate_report(...), then "Analysis complete!"
GenerateReport ==
    /\ apc = "plots"
    /\ apc' = "complete"
    /\ UNCHANGED <<aenv, n_samples, warned, coeffs>>
    /\ UNCHANGED notAnalysis

AnalysisNext ==
    CheckArgs \/ LoadResults \/ FitH2D \/ FitD2H \/ PlotResults \/ GenerateReport

-----------------------------------------------------------------------------
(* The host drivers (summa_manual_multicasting/run.py and                  *)
(* gemv/streaming_experiment/run.py) and the runtime they call.            *)

\* the last readback of the SUMMA driver: memcpy_d2h(C3_1d_u32, sym_C, ...,
\* nonblock=False); of the GEMV driver: memcpy_d2h(y_result, ..., nonblock=False)
ReadbackNonblockSlip(v) == TRUE

ReadbackNonblock(v) == FALSE

\* the runtime calls of a driver between runner.run() and runner.stop()
HostProgram(v) ==
    CASE v = "summa" ->
         << [op |-> "h2d",    sym |-> "A",    nonblock |-> TRUE],
            [op |-> "h2d",    sym |-> "B",    nonblock |-> TRUE],
            [op |-> "launch", sym |-> "main", nonblock |-> FALSE],
            [op |-> "d2h",    sym |-> "time_memcpy", nonblock |-> FALSE],
            [op |-> "d2h",    sym |-> "time_ref",    nonblock |-> FALSE],
            [op |-> "d2h",    sym |-> "C",    nonblock |-> ReadbackNonblock(v)] >>
      [] v = "original" ->
         << [op |-> "h2d",    sym |-> "A",    nonblock |-> TRUE],
            [op |-> "h2d",    sym |-> "B",    nonblock |-> FALSE],
            [op |-> "launch", sym |-> "main", nonblock |-> FALSE],
            [op |-> "d2h",    sym |-> "C",    nonblock |-> ReadbackNonblock(v)] >>
      [] v = "broadcast_1d" ->
         << [op |-> "h2d",    sym |-> "data", nonblock |-> FALSE],
            [op |-> "launch", sym |-> "main", nonblock |-> FALSE],
            [op |-> "d2h",    sym |-> "result", nonblock |-> ReadbackNonblock(v)] >>
      [] OTHER ->
         << [op |-> "h2d",    sym |-> "A",    nonblock |-> TRUE],
            [op |-> "h2d",    sym |-> "x",    nonblock |-> TRUE],
            [op |-> "h2d",    sym |-> "b",    nonblock |-> TRUE],
            [op |-> "d2h",    sym |-> "y",    nonblock |-> ReadbackNonblock(v)] >>

Inputs(v) ==
    CASE v \in {"summa", "original"} -> {"A", "B"}
      [] v = "broadcast_1d"           -> {"data"}
      [] OTHER                        -> {"A", "x", "b"}
Result(v) ==
    CASE v \in {"summa", "original"} -> "C"
      [] v = "broadcast_1d"           -> "result"
      [] OTHER                        -> "y"
\* the grid: P x P cells, P x 1 for the 1-D broadcast
HostCells ==
    CASE variant = "off"          -> {}
      [] variant = "broadcast_1d" -> 1..hparams.P
      [] OTHER                    -> 1..(hparams.P * hparams.P)

\* expected_c_size = M * N
expected_c_size == (hparams.Mt * hparams.P) * (hparams.Nt * hparams.P)
\* the number of elements of C the grid holds: P*P tiles of the binary's size
deviceElems == hparams.P * hparams.P * hparams.binMt * hparams.binNt
\* C3_1d_u32 = np.zeros(expected_c_size, np.uint32); memcpy_d2h fills that
\* array in place; actual_c_size = C3_1d_u32.size
actual_c_size == expected_c_size

HostOff ==
    /\ variant = "off" /\ hstate = "off" /\ hidx = 0 /\ cmdq = <<>>
    /\ hparams = None /\ cellState = <<>> /\ loaded = {} /\ hostBuf = <<>>
    /\ herror = None /\ printed = {} /\ exitStatus = None /\ calls = <<>>

\* a plausible slip: reshape accepting any shape
reshape_unchecked(size, newshape) == TRUE

\* ndarray.reshape(newshape) raises ValueError unless the new shape has as
\* many elements as the array
reshape_ok(size, newshape) == Prod(newshape) = size

\* the binary on the grid was built with the tile sizes of out.json
BinaryMatches == hparams.binMt = hparams.Mt /\ hparams.binNt = hparams.Nt

\* out.json of a driver.  The SUMMA drivers read P, Mt, Nt and derive
\* M = Mt*P, N = Nt*P; the GEMV driver reads M, N and the grid's dimensions
\* and derives M_per_PE = M // kernel_y_dim, N_per_PE = N // kernel_x_dim;
\* the 1-D broadcast test reads P and N.
HostParams(v) ==
    CASE v \in {"summa", "original"} ->
           {[P |-> p, Mt |-> mt, Nt |-> nt, binMt |-> bmt, binNt |-> bnt,
             M |-> mt * p, N |-> nt * p] :
              p \in 1..MaxHostP, mt \in 1..MaxHostTile, nt \in 1..MaxHostTile,
              bmt \in 1..MaxHostTile, bnt \in 1..MaxHostTile}
      [] v = "broadcast_1d" ->
           {[P |-> p, Mt |-> 1, Nt |-> n, binMt |-> 1, binNt |-> bn,
             M |-> p, N |-> n] :
              p \in 1..MaxHostP, n \in 1..MaxHostTile, bn \in 1..MaxHostTile}
      [] OTHER ->
           {[P |-> p, Mt |-> m \div p, Nt |-> n \div p,
             binMt |-> m \div p, binNt |-> n \div p, M |-> m, N |-> n] :
              p \in 1..MaxHostP, m \in 1..(MaxHostP * MaxHostTile),
              n \in 1..(MaxHostP * MaxHostTile)}

HostInit ==
    /\ variant \in {"summa", "gemv", "original", "broadcast_1d"}
    /\ hstate = "reshape" /\ hidx = 1 /\ cmdq = <<>>
    /\ hparams \in HostParams(variant)
    /\ cellState = [c \in HostCells |-> "idle"]
    /\ loaded = {}
    /\ hostBuf = [s \in {} |-> None]
    /\ herror = None /\ printed = {} /\ exitStatus = None /\ calls = <<>>

\* a plausible slip: the failure reported but the process left to end normally
exit_status_zero(error) == 0

\* the exit status of the process: 0 at the end of the script, 1 after an
\* uncaught exception or exit(1)
exit_status(error) == IF error = None THEN 0 ELSE 1

\* a plausible slip: no finally block, an exception ends the process at once
AfterErrorNoFinally(v) == "exit"

\* after the try block: finally: runner.stop() (SUMMA); the GEMV driver has
\* no try block, an exception ends the process at once
AfterError(v) == IF v = "summa" THEN "finally" ELSE "exit"

\* the driver tiles its first matrix: A1 = A.reshape(h, Mt, w, Kt) (gemv:
\* A.reshape(kernel_y_dim, M_per_PE, kernel_x_dim, N_per_PE)); the 1-D
\* broadcast test has nothing to reshape.  A ValueError ends the run: in
\* the SUMMA driver through finally, elsewhere at once.
Reshape ==
    /\ hstate = "reshape"
    /\ IF \/ variant = "broadcast_1d"
          \/ reshape_ok(hparams.M * hparams.N,
                        <<hparams.P, hparams.Mt, hparams.P, hparams.Nt>>)
       THEN hstate' = "issuing" /\ UNCHANGED <<herror, exitStatus>>
       ELSE /\ herror' = "ValueError: cannot reshape array"
            /\ hstate' = AfterError(variant)
            /\ exitStatus' = IF variant = "summa" THEN exitStatus
                             ELSE exit_status("ValueError")
    /\ UNCHANGED <<calls, variant, hidx, cmdq, hparams, cellState, loaded, hostBuf,
                   printed>>
    /\ UNCHANGED notHost

\* the host issues its next runtime call; a non-blocking call returns at once
Issue ==
    /\ hstate = "issuing" /\ hidx <= Len(HostProgram(variant))
    /\ cmdq' = Append(cmdq, hidx)
    /\ IF HostProgram(variant)[hidx].nonblock
       THEN IF hidx = Len(HostProgram(variant))
            THEN hstate' = (IF variant = "summa" THEN "size_check" ELSE "stop")
                 /\ hidx' = hidx + 1
            ELSE hstate' = "issuing" /\ hidx' = hidx + 1
       ELSE hstate' = "blocked" /\ hidx' = hidx
    /\ calls' = Append(calls, HostProgram(variant)[hidx].op)
    /\ UNCHANGED <<variant, hparams, cellState, loaded, hostBuf, herror,
                   printed, exitStatus>>
    /\ UNCHANGED notHost

\* a runtime call raises (unreachable device, broken link)
TransferFails ==
    /\ hstate \in {"issuing", "blocked"} /\ hidx <= Len(HostProgram(variant))
    /\ herror' = "TransferError"
    /\ hstate' = AfterError(variant)
    /\ exitStatus' = IF variant = "summa" THEN exitStatus
                     ELSE exit_status("TransferError")
    /\ calls' = IF hstate = "issuing"
                THEN Append(calls, HostProgram(variant)[hidx].op)
                ELSE calls
    /\ UNCHANGED <<variant, hidx, cmdq, hparams, cellState, loaded, hostBuf,
                   printed>>
    /\ UNCHANGED notHost

\* a blocking call returns once the runtime has completed it
Return ==
    /\ hstate = "blocked"
    /\ \A i \in 1..Len(cmdq) : cmdq[i] # hidx
    /\ hidx' = hidx + 1
    /\ hstate' = IF hidx < Len(HostProgram(variant)) THEN "issuing"
                 ELSE IF variant = "summa" THEN "size_check" ELSE "stop"
    /\ UNCHANGED <<calls, variant, cmdq, hparams, cellState, loaded, hostBuf, herror,
                   printed, exitStatus>>
    /\ UNCHANGED notHost

\* the runtime completes the host-to-grid transfer at the head of the stream
CompleteH2D ==
    /\ cmdq # <<>> /\ HostProgram(variant)[Head(cmdq)].op = "h2d"
    /\ loaded' = loaded \cup {HostProgram(variant)[Head(cmdq)].sym}
    /\ cmdq' = Tail(cmdq)
    /\ UNCHANGED <<calls, variant, hstate, hidx, hparams, cellState, hostBuf, herror,
                   printed, exitStatus>>
    /\ UNCHANGED notHost

\* a cell starts its work: the SUMMA cells when the launch reaches the head
\* of the command stream, the GEMV cells when their matrix chunk has arrived
CellStarts(c) ==
    /\ cellState[c] = "idle"
    /\ IF variant # "gemv"
       THEN cmdq # <<>> /\ HostProgram(variant)[Head(cmdq)].op = "launch"
       ELSE "A" \in loaded
    /\ cellState' = [cellState EXCEPT ![c] = "running"]
    /\ UNCHANGED <<calls, variant, hstate, hidx, cmdq, hparams, loaded, hostBuf,
                   herror, printed, exitStatus>>
    /\ UNCHANGED notHost

\* a cell finishes: every input it consumes has arrived
CellFinishes(c) ==
    /\ cellState[c] = "running"
    /\ Inputs(variant) \subseteq loaded
    /\ cellState' = [cellState EXCEPT ![c] = "done"]
    /\ UNCHANGED <<calls, variant, hstate, hidx, cmdq, hparams, loaded, hostBuf,
                   herror, printed, exitStatus>>
    /\ UNCHANGED notHost

\* the launch completes when every cell has finished
CompleteLaunch ==
    /\ cmdq # <<>> /\ HostProgram(variant)[Head(cmdq)].op = "launch"
    /\ \A c \in HostCells : cellState[c] = "done"
    /\ cmdq' = Tail(cmdq)
    /\ UNCHANGED <<calls, variant, hstate, hidx, hparams, cellState, loaded, hostBuf,
                   herror, printed, exitStatus>>
    /\ UNCHANGED notHost

\* the runtime completes the readback at the head of the stream: the host
\* array receives what the cells hold now.  A streaming readback (GEMV) is
\* fed by the cells themselves and completes only once they have finished.
CompleteD2H ==
    /\ cmdq # <<>> /\ HostProgram(variant)[Head(cmdq)].op = "d2h"
    /\ variant = "gemv" => \A c \in HostCells : cellState[c] = "done"
    /\ hostBuf' = [s \in DOMAIN hostBuf \cup {HostProgram(variant)[Head(cmdq)].sym}
                     |-> IF s = HostProgram(variant)[Head(cmdq)].sym
                         THEN cellState ELSE hostBuf[s]]
    /\ cmdq' = Tail(cmdq)
    /\ UNCHANGED <<calls, variant, hstate, hidx, hparams, cellState, loaded, herror,
                   printed, exitStatus>>
    /\ UNCHANGED notHost

\* if actual_c_size != expected_c_size: raise ValueError("C size mismatch ...")
SizeCheck ==
    /\ hstate = "size_check"
    /\ IF actual_c_size # expected_c_size
       THEN herror' = "ValueError: C size mismatch" /\ hstate' = "finally"
       ELSE herror' = herror /\ hstate' = "gather"
    /\ UNCHANGED <<calls, variant, hidx, cmdq, hparams, cellState, loaded, hostBuf,
                   printed, exitStatus>>
    /\ UNCHANGED notHost

\* C3.reshape / transpose / reshape / view
GatherC ==
    /\ hstate = "gather"
    /\ hstate' = "verify"
    /\ UNCHANGED <<calls, variant, hidx, cmdq, hparams, cellState, loaded, hostBuf,
                   herror, printed, exitStatus>>
    /\ UNCHANGED notHost

\* np.testing.assert_allclose(C_expected, C, ...); print("SUCCESS").  The
\* result of a binary built with other tile sizes, or read before the
\* readback has completed, may or may not pass.  The SUMMA driver verifies
\* inside its try block, the other drivers after runner.stop(); the
\* original SUMMA driver and the 1-D broadcast test print FAILED and call
\* exit(1), elsewhere the AssertionError ends the process.
Verify ==
    /\ hstate = "verify"
    /\ \E pass \in BOOLEAN :
          /\ (/\ BinaryMatches
              /\ Result(variant) \in DOMAIN hostBuf
              /\ \A c \in HostCells : hostBuf[Result(variant)][c] = "done")
                => pass
          /\ IF pass
             THEN printed' = printed \cup {"SUCCESS"} /\ herror' = herror
             ELSE printed' = printed /\ herror' = "AssertionError"
          /\ IF variant = "summa"
             THEN hstate' = "finally" /\ exitStatus' = exitStatus
             ELSE /\ hstate' = "exit"
                  /\ exitStatus' = exit_status(IF pass THEN None
                                               ELSE "AssertionError")
    /\ UNCHANGED <<calls, variant, hidx, cmdq, hparams, cellState, loaded, hostBuf>>
    /\ UNCHANGED notHost

\* runner.stop(): in the finally block of the SUMMA driver, after which the
\* process ends (with the pending exception, if any); before the
\* verification in the GEMV driver
Stop ==
    /\ hstate \in {"finally", "stop"}
    /\ IF variant = "summa"
       THEN hstate' = "exit" /\ exitStatus' = exit_status(herror)
       ELSE hstate' = "verify" /\ exitStatus' = exitStatus
    /\ calls' = Append(calls, "stop")
    /\ UNCHANGED <<variant, hidx, cmdq, hparams, cellState, loaded, hostBuf,
                   herror, printed>>
    /\ UNCHANGED notHost

CellStartsSome == \E c \in HostCells : CellStarts(c)
CellFinishesSome == \E c \in HostCells : CellFinishes(c)

HostNext ==
    \/ Reshape \/ Issue \/ TransferFails \/ Return
    \/ CompleteH2D \/ CompleteLaunch \/ CompleteD2H
    \/ CellStartsSome \/ CellFinishesSome
    \/ SizeCheck \/ GatherC \/ Verify \/ Stop

-----------------------------------------------------------------------------
(* The SUMMA run.  The host side (staging through the layout transform,    *)
(* readback, gather, reference product) is run.py; the cells' kernel is    *)
(* the per-cell state machine IDLE -> LOAD_TILE -> {WAIT_BROADCAST,        *)
(* COMPUTE} x P -> DONE with row/column broadcasts on channel colours.     *)

GridP == params.P
Cells == IF strategy = "off" THEN {} ELSE (0..(GridP - 1)) \X (0..(GridP - 1))
Operands == {"A", "B"}

\* an empty (never filled, or consumed) receive buffer
Empty == [step |-> -1, owner |-> <<>>]

\* the colour names of the even and odd steps' broadcasts (annotate_color):
\* C0 (a even), C1 (a odd), C2 (b even), C3 (b odd)
ColourNames(m) == IF m = "A" THEN <<"C0", "C1">> ELSE <<"C2", "C3">>

\* a plausible slip: every step on the even colour
ColourOfEvenOnly(m, k) == ColourNames(m)[1]

\* the colour of operand m's broadcast of step k: alternating with the
\* step's parity under the pipelined strategy, one colour otherwise
ColourOf(m, k) ==
    IF strategy = "pipelined" THEN ColourNames(m)[(k % 2) + 1]
    ELSE ColourNames(m)[1]

Colours(m) == {ColourNames(m)[1], ColourNames(m)[2]}

\* the cell that owns operand m of step k for cell (r, c): the A-tile of
\* (r, k), the B-tile of (k, c)
OwnerOf(m, cell, k) == IF m = "A" THEN <<cell[1], k>> ELSE <<k, cell[2]>>

\* a plausible slip: the B-tiles travel along the row as well
ReachesAlongRow(m, owner, rcv) == rcv # owner /\ rcv[1] = owner[1]

\* the owner's broadcast of operand m reaches rcv: a cell of its row (A) or
\* of its column (B), itself excluded
Reaches(m, owner, rcv) ==
    /\ rcv # owner
    /\ IF m = "A" THEN rcv[1] = owner[1] ELSE rcv[2] = owner[2]

\* ... and arrives there: the link towards rcv is not faulty
Delivers(m, owner, rcv) == Reaches(m, owner, rcv) /\ <<m, rcv>> \notin broken

\* memcpy_h2d(sym, A3.ravel(), 0, 0, w, h, l, order=ROW_MAJOR): cell (r, c)
\* receives elements [(r*w + c)*l, (r*w + c + 1)*l) of the flat array
Slice(flat, cell, l) ==
    [i \in 1..l |-> flat[(cell[1] * GridP + cell[2]) * l + i]]

\* one step's multiply-accumulate on column-major tiles:
\* C_tile += A_slice (Mt x Kt) x B_slice (Kt x Nt)
RECURSIVE Dot(_, _, _, _, _)
Dot(a, b, i, l, j) ==
    IF j = 0 THEN 0
    ELSE a[(j - 1) * params.Mt + i] * b[(l - 1) * params.Kt + j]
         + Dot(a, b, i, l, j - 1)

\* a plausible slip: the product stored instead of accumulated
TileStore(c, a, b) ==
    [n \in 1..(params.Mt * params.Nt) |->
        Dot(a, b, ((n - 1) % params.Mt) + 1, ((n - 1) \div params.Mt) + 1,
            params.Kt)]

TileFmac(c, a, b) ==
    [n \in 1..(params.Mt * params.Nt) |->
        c[n] + Dot(a, b, ((n - 1) % params.Mt) + 1,
                   ((n - 1) \div params.Mt) + 1, params.Kt)]

\* np.dot(A, B) on the row-major host matrices
RECURSIVE RowCol(_, _, _, _, _)
RowCol(a, b, i, l, j) ==
    IF j = 0 THEN 0
    ELSE a.data[(i - 1) * a.shape[2] + j] * b.data[(j - 1) * b.shape[2] + l]
         + RowCol(a, b, i, l, j - 1)

np_dot(a, b) ==
    [shape |-> <<a.shape[1], b.shape[2]>>,
     data  |-> [n \in 1..(a.shape[1] * b.shape[2]) |->
                  RowCol(a, b, ((n - 1) \div b.shape[2]) + 1,
                         ((n - 1) % b.shape[2]) + 1, a.shape[2])]]

\* the tile a cell multiplies as operand m of step k: its own when it is
\* the owner, else what its receive buffer of the step's colour holds
OperandSource(m, cell, k) ==
    IF OwnerOf(m, cell, k) = cell THEN [step |-> k, owner |-> cell]
    ELSE buf[m][cell][ColourOf(m, k)]

TileOf(m, owner) == IF m = "A" THEN tileA[owner] ELSE tileB[owner]

\* a plausible slip: the compute does not wait for the receive
OperandReadyNoWait(m, cell, k) == TRUE

\* a plausible slip: a cell gives up waiting on a faulty link and computes
OperandReadyOrTimeout(m, cell, k) ==
    \/ OwnerOf(m, cell, k) = cell
    \/ /\ buf[m][cell][ColourOf(m, k)] # Empty
       /\ ColourOf(m, k) \notin pend[m][cell]
    \/ <<m, cell, k>> \in lost

\* the operand of step k is there: local, or the posted receive completed;
\* the wait has no timeout and no cancellation
OperandReady(m, cell, k) ==
    \/ OwnerOf(m, cell, k) = cell
    \/ /\ buf[m][cell][ColourOf(m, k)] # Empty
       /\ ColourOf(m, k) \notin pend[m][cell]

\* `cell` enters the communication of step k: it broadcasts the operands of
\* the step it owns and posts a receive, on the step's colour, for those it
\* does not own.  A broadcast stays in flight on its colour until the
\* receiving cell has a receive posted on that colour, and then lands in
\* the receive buffer of that colour.  Lands: the broadcast of operand m
\* lands at rcv as `cell` does this.
Lands(m, cell, k, rcv) ==
    IF OwnerOf(m, cell, k) = cell
    THEN Delivers(m, cell, rcv) /\ ColourOf(m, k) \in pend[m][rcv]
    ELSE rcv = cell /\ chan[m][rcv][ColourOf(m, k)] # <<>>

CommChan(m, cell, k) ==
    [rcv \in Cells |->
        IF OwnerOf(m, cell, k) = cell
        THEN IF Delivers(m, cell, rcv) /\ ~Lands(m, cell, k, rcv)
             THEN [chan[m][rcv] EXCEPT ![ColourOf(m, k)] =
                      Append(@, [step |-> k, owner |-> cell])]
             ELSE chan[m][rcv]
        ELSE IF Lands(m, cell, k, rcv)
             THEN [chan[m][rcv] EXCEPT ![ColourOf(m, k)] = Tail(@)]
             ELSE chan[m][rcv]]

CommPend(m, cell, k) ==
    [rcv \in Cells |->
        IF Lands(m, cell, k, rcv) THEN pend[m][rcv] \ {ColourOf(m, k)}
        ELSE IF rcv = cell /\ OwnerOf(m, cell, k) # cell
             THEN pend[m][rcv] \cup {ColourOf(m, k)}
             ELSE pend[m][rcv]]

CommBuf(m, cell, k, bf) ==
    [rcv \in Cells |->
        IF Lands(m, cell, k, rcv)
        THEN [bf[m][rcv] EXCEPT ![ColourOf(m, k)] =
                 IF OwnerOf(m, cell, k) = cell
                 THEN [step |-> k, owner |-> cell]
                 ELSE Head(chan[m][rcv][ColourOf(m, k)])]
        ELSE bf[m][rcv]]

\* the buffers that a landing overwrites while they hold an unconsumed tile
CommOverwrites(cell, k, bf) ==
    {<<x[1], x[2], ColourOf(x[1], k)>> :
        x \in {y \in Operands \X Cells :
                  /\ Lands(y[1], cell, k, y[2])
                  /\ bf[y[1]][y[2]][ColourOf(y[1], k)] # Empty}}

\* the receive buffers after `cell` has consumed the operands of step k
Consumed(bf, cell, k) ==
    IF OwnerOf("A", cell, k) = cell /\ OwnerOf("B", cell, k) = cell THEN bf
    ELSE [m \in Operands |->
            IF OwnerOf(m, cell, k) = cell THEN bf[m]
            ELSE [bf[m] EXCEPT ![cell][ColourOf(m, k)] = Empty]]

\* the communication of step k, as `cell` enters it with the buffers bf
Communicate(cell, k, bf) ==
    /\ chan' = [m \in Operands |-> CommChan(m, cell, k)]
    /\ pend' = [m \in Operands |-> CommPend(m, cell, k)]
    /\ overwritten' = overwritten \cup CommOverwrites(cell, k, bf)
    /\ lost' = lost \cup
          {<<y[1], y[2], k>> :
              y \in {x \in broken : /\ OwnerOf(x[1], cell, k) = cell
                                    /\ Reaches(x[1], cell, x[2])}}

SummaOff ==
    /\ strategy = "off" /\ params = None /\ observed = {}
    /\ A = None /\ B = None
    /\ spc = "off" /\ onDevice = {} /\ tileA = <<>> /\ tileB = <<>>
    /\ acc = <<>> /\ phase = <<>> /\ step = <<>> /\ chan = <<>>
    /\ pend = <<>> /\ buf = <<>> /\ overwritten = {} /\ C = None
    /\ broken = {} /\ lost = {}

Max(a, b) == IF a > b THEN a ELSE b

\* On a grid of up to MaxFineP every cell is observed.  On a larger grid
\* one cell is: (1,2), which receives A in adjacent steps (0 and 1, on the
\* two colours) and B on a reused colour (steps 0 and 2).  What another
\* cell does between the start and the end of a compute is invisible to it.
Observable ==
    IF GridP <= MaxFineP THEN {Cells} ELSE {{<<1, 2>>}}

SummaInit ==
    /\ strategy \in {"sequential", "pipelined"}
    /\ \E p \in 1..MaxP :
         \E mt, kt, nt \in 1..Max(1, MaxElems \div p) :
            params = [P |-> p, Mt |-> mt, Kt |-> kt, Nt |-> nt]
    /\ observed \in Observable
    /\ A = Matrix(params.Mt * GridP, params.Kt * GridP, 1, 1)
    /\ B = Matrix(params.Kt * GridP, params.Nt * GridP, 0, 2)
    /\ spc = "stage"
    /\ onDevice = {}
    /\ tileA = [cell \in Cells |-> <<>>]
    /\ tileB = [cell \in Cells |-> <<>>]
    /\ acc = [cell \in Cells |-> [n \in 1..(params.Mt * params.Nt) |-> 0]]
    /\ phase = [cell \in Cells |-> "IDLE"]
    /\ step = [cell \in Cells |-> 0]
    /\ chan = [m \in Operands |-> [cell \in Cells |->
                  [col \in Colours(m) |-> <<>>]]]
    /\ pend = [m \in Operands |-> [cell \in Cells |-> {}]]
    /\ buf = [m \in Operands |-> [cell \in Cells |->
                  [col \in Colours(m) |-> Empty]]]
    /\ overwritten = {}
    /\ broken = {} /\ lost = {}
    /\ C = [shape |-> <<0>>, data |-> <<>>]

\* A3 = toTiles(A); memcpy_h2d(sym_A, A3.ravel(), ...): every cell receives
\* its A-tile
MemcpyA ==
    /\ spc \in {"stage", "loading"} /\ "A" \notin onDevice
    /\ LET A3 == toTiles(A, GridP, GridP, params.Mt, params.Kt)
       IN  tileA' = [cell \in Cells |->
                        Slice(A3.data, cell, params.Mt * params.Kt)]
    /\ onDevice' = onDevice \cup {"A"}
    /\ phase' = [cell \in Cells |-> "LOAD_TILE"]
    /\ spc' = "loading"
    /\ UNCHANGED <<strategy, params, observed, A, B, tileB, acc, step, chan, pend, buf,
                   overwritten, broken, lost, C>>
    /\ UNCHANGED notSumma

\* B3 = toTiles(B); memcpy_h2d(sym_B, B3.ravel(), ...)
MemcpyB ==
    /\ spc \in {"stage", "loading"} /\ "B" \notin onDevice
    /\ LET B3 == toTiles(B, GridP, GridP, params.Kt, params.Nt)
       IN  tileB' = [cell \in Cells |->
                        Slice(B3.data, cell, params.Kt * params.Nt)]
    /\ onDevice' = onDevice \cup {"B"}
    /\ phase' = [cell \in Cells |-> "LOAD_TILE"]
    /\ spc' = "loading"
    /\ UNCHANGED <<strategy, params, observed, A, B, tileA, acc, step, chan, pend, buf,
                   overwritten, broken, lost, C>>
    /\ UNCHANGED notSumma

\* runner.launch("main"): issued after both transfers, it starts the cells
Launch ==
    /\ spc = "loading" /\ onDevice = {"A", "B"}
    /\ spc' = "launched"
    /\ UNCHANGED <<strategy, params, observed, A, B, onDevice, tileA, tileB, acc, phase,
                   step, chan, pend, buf, overwritten, broken, lost,
                   C>>
    /\ UNCHANGED notSumma

\* LOAD_TILE -> WAIT_BROADCAST of step 0: the owners of step 0 broadcast,
\* the others post their receives
Begin(cell) ==
    /\ spc = "launched" /\ phase[cell] = "LOAD_TILE"
    /\ phase' = [phase EXCEPT ![cell] = "WAIT_BROADCAST"]
    /\ Communicate(cell, 0, buf)
    /\ buf' = [m \in Operands |-> CommBuf(m, cell, 0, buf)]
    /\ UNCHANGED <<strategy, params, observed, A, B, spc, onDevice, tileA,
                   tileB, acc, step, broken, C>>
    /\ UNCHANGED notSumma

\* WAIT_BROADCAST -> COMPUTE once both operands of the step are there.
\* Pipelined: the communication of step k+1 starts now, on the other
\* colour, and overlaps this compute.
StartCompute(cell) ==
    /\ cell \in observed
    /\ phase[cell] = "WAIT_BROADCAST"
    /\ \A m \in Operands : OperandReady(m, cell, step[cell])
    /\ phase' = [phase EXCEPT ![cell] = "COMPUTE"]
    /\ IF strategy = "pipelined" /\ step[cell] + 1 < GridP
       THEN /\ Communicate(cell, step[cell] + 1, buf)
            /\ buf' = [m \in Operands |-> CommBuf(m, cell, step[cell] + 1, buf)]
       ELSE UNCHANGED <<chan, pend, buf, overwritten, lost>>
    /\ UNCHANGED <<strategy, params, observed, A, B, spc, onDevice, tileA,
                   tileB, acc, step, broken, C>>
    /\ UNCHANGED notSumma

\* the step loop counts k = 0, 1, ..., P-1, with a step left out
NextStepSkips(k) == k + 2

\* the step loop counts k = 0, 1, ..., P-1
NextStep(k) == k + 1

\* the multiply-accumulate lands in every cell's accumulator
AccumulateShared(cell) ==
    acc' = [c \in Cells |->
              TileFmac(acc[c], TileOf("A", OperandSource("A", cell, step[cell]).owner),
                               TileOf("B", OperandSource("B", cell, step[cell]).owner))]

\* the step's multiply-accumulate on the operands the cell holds
Accumulate(cell) ==
    acc' = [acc EXCEPT ![cell] =
              TileFmac(@, TileOf("A", OperandSource("A", cell, step[cell]).owner),
                          TileOf("B", OperandSource("B", cell, step[cell]).owner))]

\* COMPUTE ends: the accumulator takes the step's product, the buffers of
\* the step are consumed, and the cell moves to the next step or to DONE.
\* Sequential: the communication of step k+1 starts only now.
FinishCompute(cell) ==
    /\ phase[cell] = "COMPUTE"
    /\ Accumulate(cell)
    /\ step' = [step EXCEPT ![cell] = NextStep(@)]
    /\ phase' = [phase EXCEPT ![cell] =
                   IF step[cell] + 1 < GridP THEN "WAIT_BROADCAST" ELSE "DONE"]
    /\ IF strategy = "sequential" /\ step[cell] + 1 < GridP
       THEN /\ Communicate(cell, step[cell] + 1, Consumed(buf, cell, step[cell]))
            /\ buf' = [m \in Operands |->
                         CommBuf(m, cell, step[cell] + 1,
                                 Consumed(buf, cell, step[cell]))]
       ELSE /\ buf' = Consumed(buf, cell, step[cell])
            /\ UNCHANGED <<chan, pend, overwritten, lost>>
    /\ UNCHANGED <<strategy, params, observed, A, B, spc, onDevice, tileA,
                   tileB, broken, C>>
    /\ UNCHANGED notSumma

\* a cell that is not observed takes WAIT_BROADCAST -> COMPUTE -> next as
\* one step: StartCompute followed at once by FinishCompute
WholeStep(cell) ==
    /\ cell \notin observed
    /\ phase[cell] = "WAIT_BROADCAST"
    /\ \A m \in Operands : OperandReady(m, cell, step[cell])
    /\ Accumulate(cell)
    /\ step' = [step EXCEPT ![cell] = NextStep(@)]
    /\ phase' = [phase EXCEPT ![cell] =
                   IF step[cell] + 1 < GridP THEN "WAIT_BROADCAST" ELSE "DONE"]
    /\ IF step[cell] + 1 < GridP
       THEN IF strategy = "pipelined"
            THEN /\ Communicate(cell, step[cell] + 1, buf)
                 /\ buf' = Consumed([m \in Operands |->
                                       CommBuf(m, cell, step[cell] + 1, buf)],
                                    cell, step[cell])
            ELSE /\ Communicate(cell, step[cell] + 1,
                                Consumed(buf, cell, step[cell]))
                 /\ buf' = [m \in Operands |->
                              CommBuf(m, cell, step[cell] + 1,
                                      Consumed(buf, cell, step[cell]))]
       ELSE /\ buf' = Consumed(buf, cell, step[cell])
            /\ UNCHANGED <<chan, pend, overwritten, lost>>
    /\ UNCHANGED <<strategy, params, observed, A, B, spc, onDevice, tileA,
                   tileB, broken, C>>
    /\ UNCHANGED notSumma

BeginSome == \E cell \in Cells : Begin(cell)
StartComputeSome == \E cell \in Cells : StartCompute(cell)
FinishComputeSome == \E cell \in Cells : FinishCompute(cell)
WholeStepSome == \E cell \in Cells : WholeStep(cell)

\* the launch has returned (every cell is DONE): memcpy_d2h(C3_1d_u32,
\* sym_C, ...) in ROW_MAJOR order, then the gather transform
ReadbackAndGather ==
    /\ spc = "launched"
    /\ \A cell \in Cells : phase[cell] = "DONE"
    /\ LET l     == params.Mt * params.Nt
           C3_1d == [shape |-> <<GridP * GridP * l>>,
                     data  |-> [n \in 1..(GridP * GridP * l) |->
                                  acc[<<((n - 1) \div l) \div GridP,
                                        ((n - 1) \div l) % GridP>>]
                                     [((n - 1) % l) + 1]]]
       IN  C' = fromTiles(C3_1d, GridP, GridP, params.Mt, params.Nt)
    /\ spc' = "gathered"
    /\ UNCHANGED <<strategy, params, observed, A, B, onDevice, tileA, tileB, acc, phase,
                   step, chan, pend, buf, overwritten, broken, lost>>
    /\ UNCHANGED notSumma

\* an upstream link fault: from now on no broadcast of operand m arrives at
\* rcv.  At most one link fails in a run.
LinkFault ==
    /\ spc = "launched" /\ broken = {}
    /\ \E m \in Operands, rcv \in Cells : broken' = {<<m, rcv>>}
    /\ UNCHANGED <<strategy, params, observed, A, B, spc, onDevice, tileA,
                   tileB, acc, phase, step, chan, pend, buf, overwritten,
                   lost, C>>
    /\ UNCHANGED notSumma

SummaNext ==
    \/ MemcpyA \/ MemcpyB \/ Launch \/ BeginSome \/ StartComputeSome
    \/ FinishComputeSome \/ WholeStepSome \/ ReadbackAndGather

-----------------------------------------------------------------------------
(* The 1-D broadcast test (broadcast_1d/run.py): P PEs in a row, each      *)
(* seeded with its own N elements; P broadcast rounds, round i sending PE  *)
(* i's data to every PE; the host reads every PE's result back and checks  *)
(* it against PE P-1's data.                                               *)

PEs == IF bpc = "off" THEN {} ELSE 0..(bparams.P - 1)

\* a plausible slip: the row index not scaled by N
SeedRowUnscaled(i, n) == [j \in 1..n |-> i + (j - 1)]

\* data[i] = np.arange(i * N, (i + 1) * N)
SeedRow(i, n) == [j \in 1..n |-> i * n + (j - 1)]

BcastOff ==
    /\ bpc = "off" /\ bparams = None /\ data = <<>> /\ devData = <<>>
    /\ result = <<>> /\ round = <<>> /\ inbox = <<>> /\ hostResult = None
    /\ bprinted = {} /\ bexit = None

BcastInit ==
    /\ bpc = "start"
    /\ \E p \in 1..MaxRingP, n \in 1..MaxRingN : bparams = [P |-> p, N |-> n]
    /\ data = [i \in PEs |-> SeedRow(i, bparams.N)]
    /\ devData = [i \in PEs |-> [j \in 1..bparams.N |-> 0]]
    /\ result = [i \in PEs |-> [j \in 1..bparams.N |-> 0]]
    /\ round = [i \in PEs |-> 0]
    /\ inbox = [i \in PEs |-> <<>>]
    /\ hostResult = None
    /\ bprinted = {}
    /\ bexit = None

\* runner.memcpy_h2d(sym_data, data.ravel(), 0, 0, P, 1, N, nonblock=False):
\* PE i receives row i
BcastH2D ==
    /\ bpc = "start"
    /\ devData' = [i \in PEs |-> data[i]]
    /\ bpc' = "loaded"
    /\ UNCHANGED <<bparams, data, result, round, inbox, hostResult, bprinted,
                   bexit>>
    /\ UNCHANGED notBcast

\* runner.launch("main", nonblock=False)
BcastLaunch ==
    /\ bpc = "loaded"
    /\ bpc' = "launched"
    /\ UNCHANGED <<bparams, data, devData, result, round, inbox, hostResult,
                   bprinted, bexit>>
    /\ UNCHANGED notBcast

\* round i at PE i: it broadcasts its data to every other PE and keeps it
\* as its own result
SendRound(i) ==
    /\ bpc = "launched" /\ round[i] = i
    /\ inbox' = [p \in PEs |->
                    IF p = i THEN inbox[p]
                    ELSE Append(inbox[p], [from |-> i, payload |-> devData[i]])]
    /\ result' = [result EXCEPT ![i] = devData[i]]
    /\ round' = [round EXCEPT ![i] = @ + 1]
    /\ UNCHANGED <<bpc, bparams, data, devData, hostResult, bprinted, bexit>>
    /\ UNCHANGED notBcast

\* round r at another PE: it waits for the round's broadcast and stores it
\* as its result
ReceiveRound(p) ==
    /\ bpc = "launched" /\ round[p] < bparams.P /\ round[p] # p
    /\ inbox[p] # <<>>
    /\ Head(inbox[p]).from = round[p]
    /\ result' = [result EXCEPT ![p] = Head(inbox[p]).payload]
    /\ inbox' = [inbox EXCEPT ![p] = Tail(@)]
    /\ round' = [round EXCEPT ![p] = @ + 1]
    /\ UNCHANGED <<bpc, bparams, data, devData, hostResult, bprinted, bexit>>
    /\ UNCHANGED notBcast

SendRoundSome == \E i \in PEs : SendRound(i)
ReceiveRoundSome == \E p \in PEs : ReceiveRound(p)

\* the launch has returned (every PE has finished its P rounds);
\* runner.memcpy_d2h(result_raw, sym_result, 0, 0, P, 1, N, nonblock=False);
\* result = result_raw.view(np.float32).reshape(P, N)
BcastD2H ==
    /\ bpc = "launched"
    /\ \A p \in PEs : round[p] = bparams.P
    /\ hostResult' = [p \in PEs |-> result[p]]
    /\ bpc' = "read"
    /\ UNCHANGED <<bparams, data, devData, result, round, inbox, bprinted,
                   bexit>>
    /\ UNCHANGED notBcast

\* runner.stop()
BcastStop ==
    /\ bpc = "read"
    /\ bpc' = "stopped"
    /\ UNCHANGED <<bparams, data, devData, result, round, inbox, hostResult,
                   bprinted, bexit>>
    /\ UNCHANGED notBcast

\* expected = data[P - 1]; all_correct: every row of result equals expected
all_correct == \A i \in PEs : hostResult[i] = data[bparams.P - 1]

\* print SUCCESS, or print FAILED and exit(1)
BcastVerify ==
    /\ bpc = "stopped"
    /\ bpc' = "exit"
    /\ IF all_correct
       THEN bprinted' = bprinted \cup {"SUCCESS"} /\ bexit' = 0
       ELSE bprinted' = bprinted \cup {"FAILED"} /\ bexit' = 1
    /\ UNCHANGED <<bparams, data, devData, result, round, inbox, hostResult>>
    /\ UNCHANGED notBcast

BcastNext ==
    \/ BcastH2D \/ BcastLaunch \/ SendRoundSome \/ ReceiveRoundSome
    \/ BcastD2H \/ BcastStop \/ BcastVerify

-----------------------------------------------------------------------------
(* The cycle-count report of the SUMMA driver (run.py 125-179).  Every     *)
(* cell leaves its start and end timestamps in `time_memcpy` (three 32-bit *)
(* words) and a reference timestamp in `time_ref` (two 32-bit words).  The *)
(* host reads the words into float32 arrays, takes their bit patterns back *)
(* out, rebuilds the 48-bit counts and removes each cell's clock offset.   *)
(*                                                                         *)
(* A Python integer (and an int64 of numpy, far from its limits here) is a *)
(* pair [hi, lo] that stands for hi * 2^24 + lo with 0 <= lo < 2^24; a     *)
(* 32-bit word is the pair [lo, hi] of its two 16-bit halves.              *)

TwoTo16 == 65536
TwoTo24 == 256 * TwoTo16

Big(hi, lo) == [hi |-> hi + (lo \div TwoTo24), lo |-> lo % TwoTo24]
BigSub(a, b) == Big(a.hi - b.hi, a.lo - b.lo)
BigLeq(a, b) == a.hi < b.hi \/ (a.hi = b.hi /\ a.lo <= b.lo)
BigMax(S) == CHOOSE m \in S : \A x \in S : BigLeq(x, m)
BigMin(S) == CHOOSE m \in S : \A x \in S : BigLeq(m, x)
InU48(v) == v.hi >= 0 /\ v.hi < TwoTo24 /\ v.lo >= 0 /\ v.lo < TwoTo24

\* the three 16-bit words of a 48-bit count, least significant first
Words16(v) ==
    << v.lo % TwoTo16,
       (v.lo \div TwoTo16) + (v.hi % 256) * 256,
       v.hi \div 256 >>

\* the kernel's exit task: six 16-bit words in three 32-bit words
PackTimes(start, end) ==
    LET s == Words16(start)
        e == Words16(end)
    IN  << [lo |-> s[1], hi |-> s[2]],
           [lo |-> s[3], hi |-> e[1]],
           [lo |-> e[2], hi |-> e[3]] >>

\* the kernel's reference timestamp: three 16-bit words in two 32-bit words
PackRef(ref) ==
    LET r == Words16(ref)
    IN  << [lo |-> r[1], hi |-> r[2]], [lo |-> r[3], hi |-> 0] >>

\* a float32 bit pattern that is a signalling NaN: exponent all ones
\* (bits 23..30), quiet bit (22) clear, fraction not zero
IsSignallingNaN(word) ==
    /\ (word.hi \div 128) % 256 = 255
    /\ (word.hi \div 64) % 2 = 0
    /\ (word.hi % 64 # 0 \/ word.lo # 0)

\* run.py 51-52: the float32 element becomes a Python float (a double) and
\* struct.pack("<f", ...) narrows it again; a conversion that quiets a
\* signalling NaN sets bit 22, every other pattern comes back unchanged
float_to_hex(word, conv) ==
    IF conv = "quiets" /\ IsSignallingNaN(word)
    THEN [lo |-> word.lo, hi |-> word.hi + 64]
    ELSE word

\* run.py 55-56
make_u48(words) ==
    Big(words[3] * 256 + (words[2] \div 256),
        (words[2] % 256) * TwoTo16 + words[1])

\* the offset the report removes from the reference of the cell at row py,
\* column px, read as px - py
skew_difference(py, px) == px - py

\* run.py 172: time_ref[py, px] -= px + py
skew(py, px) == px + py

\* run.py 148-154, 155-158, 163-168: the counts rebuilt from a cell's words
unpack_start(mem, conv) ==
    LET t0 == float_to_hex(mem[1], conv)
        t1 == float_to_hex(mem[2], conv)
    IN  make_u48(<<t0.lo, t0.hi, t1.lo>>)

unpack_end(mem, conv) ==
    LET t1 == float_to_hex(mem[2], conv)
        t2 == float_to_hex(mem[3], conv)
    IN  make_u48(<<t1.hi, t2.lo, t2.hi>>)

TimingCells == IF tpc = "off" THEN {} ELSE (0 .. tP - 1) \X (0 .. tP - 1)

TimingOff ==
    /\ tpc = "off" /\ tP = 0 /\ float_conv = None /\ tsc = None
    /\ time_memcpy = None /\ time_ref_mem = None
    /\ time_start = None /\ time_end = None /\ time_ref = None
    /\ max_cycle_count = None

\* after runner.launch returns (run.py 123): every cell has recorded its
\* timestamps; the platform's float conversion either quiets NaNs or not.
\* One cell: small counts, counts whose words are float32 NaN patterns,
\* counts above 2^32, the largest count.  A grid: small counts.
TimingInit ==
    LET StampSamples == { Big(0, 0), Big(0, 5), Big(0, 32640), Big(127, 8388609),
                          Big(256, 0), Big(TwoTo24 - 1, TwoTo24 - 1) }
        RefSamples == { Big(0, 0), Big(0, 3), Big(256, 7) }
        GridStarts == { Big(0, 10), Big(0, 20) }
        GridEnds == { Big(0, 30), Big(0, 45) }
        GridRefs == { Big(0, 0), Big(0, 12) }
    IN  /\ tpc = "launched"
        /\ tP \in 1 .. MaxTimingP
        /\ float_conv \in {"quiets", "preserves"}
        /\ tsc \in [ (0 .. tP - 1) \X (0 .. tP - 1) ->
                     IF tP = 1
                     THEN [start : StampSamples, end : StampSamples,
                           ref : RefSamples]
                     ELSE [start : GridStarts, end : GridEnds, ref : GridRefs] ]
        /\ time_memcpy = None /\ time_ref_mem = None
        /\ time_start = None /\ time_end = None /\ time_ref = None
        /\ max_cycle_count = None

\* run.py 126-168: both readbacks and both unpack loops
ReadTimes ==
    /\ tpc = "launched"
    /\ LET tm == [c \in TimingCells |-> PackTimes(tsc[c].start, tsc[c].end)]
           tr == [c \in TimingCells |-> PackRef(tsc[c].ref)]
       IN  /\ time_memcpy' = tm
           /\ time_ref_mem' = tr
           /\ time_start' = [c \in TimingCells |-> unpack_start(tm[c], float_conv)]
           /\ time_end' = [c \in TimingCells |-> unpack_end(tm[c], float_conv)]
           /\ time_ref' = [c \in TimingCells |-> unpack_start(tr[c], float_conv)]
    /\ tpc' = "unpacked"
    /\ UNCHANGED <<tP, float_conv, tsc, max_cycle_count>>
    /\ UNCHANGED notTiming

\* run.py 170-174
AdjustTimes ==
    /\ tpc = "unpacked"
    /\ LET ref == [c \in TimingCells |->
                     BigSub(time_ref[c], Big(0, skew(c[1], c[2])))]
       IN  /\ time_ref' = ref
           /\ time_start' = [c \in TimingCells |-> BigSub(time_start[c], ref[c])]
           /\ time_end' = [c \in TimingCells |-> BigSub(time_end[c], ref[c])]
    /\ tpc' = "adjusted"
    /\ UNCHANGED <<tP, float_conv, tsc, time_memcpy, time_ref_mem, max_cycle_count>>
    /\ UNCHANGED notTiming

\* run.py 176-179
ReportTimes ==
    /\ tpc = "adjusted"
    /\ LET min_time_start == BigMin({time_start[c] : c \in TimingCells})
           max_time_end == BigMax({time_end[c] : c \in TimingCells})
       IN  max_cycle_count' = BigSub(max_time_end, min_time_start)
    /\ tpc' = "reported"
    /\ UNCHANGED <<tP, float_conv, tsc, time_memcpy, time_ref_mem, time_start,
                   time_end, time_ref>>
    /\ UNCHANGED notTiming

TimingNext == ReadTimes \/ AdjustTimes \/ ReportTimes

-----------------------------------------------------------------------------
(* The timeline parsers: parse_instr_log (parse_task_timeline.py 10-54)    *)
(* and parse_log_file (parse_color_link_timeline.py 10-56).  A log is a    *)
(* sequence of lines; a line is [kind, stamp, id]: an instruction entry    *)
(* ("instr", id = <<task>>), a landing entry ("landing", id = <<colour,    *)
(* link>>) or anything else ("other"); stamp is the digit string after     *)
(* the '@'.  A key is a tuple, <<>> standing for Python's None.            *)

\* int(match.group(1)): the value of a string of decimal digits
RECURSIVE int_of(_)
int_of(digits) ==
    IF digits = <<>> THEN 0
    ELSE 10 * int_of(SubSeq(digits, 1, Len(digits) - 1)) + digits[Len(digits)]

\* a plausible slip: a landing entry is keyed by its colour alone
MatchColourOnly(which, line) ==
    IF (which = "instr" /\ line.kind = "instr")
       \/ (which = "link" /\ line.kind = "landing")
    THEN [matched |-> TRUE, timestamp |-> int_of(line.stamp),
          key |-> <<line.id[1]>>]
    ELSE [matched |-> FALSE]

\* pattern.search(line) and the groups taken from the match
\* (parse_task_timeline.py 22, 30-33; parse_color_link_timeline.py 21, 29-35)
Match(which, line) ==
    IF (which = "instr" /\ line.kind = "instr")
       \/ (which = "link" /\ line.kind = "landing")
    THEN [matched |-> TRUE, timestamp |-> int_of(line.stamp), key |-> line.id]
    ELSE [matched |-> FALSE]

ParseOff ==
    /\ ppc = "off" /\ parser = None /\ log = <<>> /\ lineno = 0
    /\ current = <<>> /\ current_start = 0 /\ current_end = 0
    /\ ranges = <<>>

\* one turn of `for line in f` (parse_task_timeline.py 29-48,
\* parse_color_link_timeline.py 28-50)
ReadLine ==
    /\ ppc = "reading" /\ lineno <= Len(log)
    /\ LET match == Match(parser, log[lineno])
       IN  IF ~match.matched
           THEN UNCHANGED <<current, current_start, current_end, ranges>>
           ELSE IF current = <<>>
           THEN /\ current' = match.key
                /\ current_start' = match.timestamp
                /\ current_end' = match.timestamp
                /\ UNCHANGED ranges
           ELSE IF current = match.key
           THEN /\ current_end' = match.timestamp
                /\ UNCHANGED <<current, current_start, ranges>>
           ELSE /\ ranges' = Append(ranges, <<current_start, current_end>> \o current)
                /\ current' = match.key
                /\ current_start' = match.timestamp
                /\ current_end' = match.timestamp
    /\ lineno' = lineno + 1
    /\ UNCHANGED <<ppc, parser, log>>
    /\ UNCHANGED notParse

\* end of file: the last range, then return (parse_task_timeline.py 51-54,
\* parse_color_link_timeline.py 53-56)
ReturnRanges ==
    /\ ppc = "reading" /\ lineno > Len(log)
    /\ ranges' = IF current # <<>>
                 THEN Append(ranges, <<current_start, current_end>> \o current)
                 ELSE ranges
    /\ ppc' = "returned"
    /\ UNCHANGED <<parser, log, lineno, current, current_start, current_end>>
    /\ UNCHANGED notParse

ParseNext == ReadLine \/ ReturnRanges

-----------------------------------------------------------------------------
(* Specifications.                                                         *)

\* every subsystem but `sub` is off
OthersOff(sub) ==
    /\ IF sub = "layout" THEN TRUE ELSE LayoutOff
    /\ IF sub = "compare" THEN TRUE ELSE CompareOff
    /\ IF sub = "analysis" THEN TRUE ELSE AnalysisOff
    /\ IF sub = "host" THEN TRUE ELSE HostOff
    /\ IF sub = "summa" THEN TRUE ELSE SummaOff
    /\ IF sub = "bcast" THEN TRUE ELSE BcastOff
    /\ IF sub = "timing" THEN TRUE ELSE TimingOff
    /\ IF sub = "parse" THEN TRUE ELSE ParseOff

InitLayout    == LayoutInit /\ OthersOff("layout")
InitCompare   == CompareInit /\ OthersOff("compare")
InitAnalysis  == AnalysisInit /\ OthersOff("analysis")
InitHost      == HostInit /\ OthersOff("host")
InitSumma     == SummaInit /\ OthersOff("summa")
InitBroadcast == BcastInit /\ OthersOff("bcast")
InitTiming    == TimingInit /\ OthersOff("timing")
\* the parser is called on a log of up to MaxLines lines, stamped in the
\* order of the file (line i carries @1i)
InitParse ==
    /\ ppc = "reading"
    /\ parser \in {"instr", "link"}
    /\ \E n \in 0 .. MaxLines :
         \E shape \in [1 .. n -> {<<"instr", <<"T11">>>>, <<"instr", <<"T24">>>>,
                                  <<"landing", <<"C1", "N">>>>,
                                  <<"landing", <<"C1", "E">>>>,
                                  <<"landing", <<"C2", "N">>>>,
                                  <<"other", <<>>>>}] :
            log = [i \in 1 .. n |->
                     [kind |-> shape[i][1], stamp |-> <<1, i>>, id |-> shape[i][2]]]
    /\ lineno = 1
    /\ current = <<>> /\ current_start = 0 /\ current_end = 0
    /\ ranges = <<>>
    /\ OthersOff("parse")

\* a SUMMA run during which a link may fail
InitStall     == InitSumma /\ GridP \in 2..MaxStallP /\ observed = Cells
StallNext ==
    \/ MemcpyA \/ MemcpyB \/ Launch \/ BeginSome \/ StartComputeSome
    \/ FinishComputeSome \/ ReadbackAndGather \/ LinkFault

SpecLayout    == InitLayout /\ [][LayoutNext]_vars
SpecCompare   == InitCompare /\ [][CompareNext]_vars
SpecAnalysis  == InitAnalysis /\ [][AnalysisNext]_vars
SpecHost      == InitHost /\ [][HostNext]_vars
SpecSumma     == InitSumma /\ [][SummaNext]_vars
SpecBroadcast == InitBroadcast /\ [][BcastNext]_vars
SpecTiming    == InitTiming /\ [][TimingNext]_vars
SpecParse     == InitParse /\ [][ParseNext]_vars
\* every cell and the host keep running as long as they can (every step of
\* the run changes one of spc, onDevice, phase, step, broken)
SpecStall ==
    InitStall /\ [][StallNext]_vars
        /\ WF_<<spc, onDevice, phase, step, broken>>(StallNext)

\* a SUMMA run on a healthy fabric, every cell observed, in which the host
\* and every cell keep running as long as they can: the cells are
\* processors of their own and the host's launch blocks until they are
\* done (run.py 123, nonblock=False)
FairNext ==
    \/ MemcpyA \/ MemcpyB \/ Launch \/ BeginSome \/ StartComputeSome
    \/ FinishComputeSome \/ ReadbackAndGather
InitFair == InitSumma /\ GridP <= MaxFineP
SpecFair ==
    InitFair /\ [][FairNext]_vars
        /\ WF_<<spc, onDevice, phase, step>>(FairNext)

Init ==
    \/ InitLayout \/ InitCompare \/ InitAnalysis \/ InitHost \/ InitSumma
    \/ InitBroadcast \/ InitTiming \/ InitParse

Next ==
    \/ LayoutNext \/ CompareNext \/ AnalysisNext \/ HostNext \/ SummaNext
    \/ BcastNext \/ LinkFault \/ TimingNext \/ ParseNext

Spec == Init /\ [][Next]_vars

-----------------------------------------------------------------------------
(* C1: round trip of the layout transform.  For every grid shape and tile  *)
(* shape and every host matrix, the gather transform applied to the        *)
(* forward transform's flat output returns the matrix, element for element.*)
C1_RoundTrip ==
    lpc = "gathered" => X1.shape = X.shape /\ X1.data = X.data

\* a run whose tiles are 2x2 on a 2x2 grid: the forward transform moved data
C1_Witness ==
    /\ lpc = "gathered"
    /\ h = 2 /\ w = 2 /\ tileRows = 2 /\ tileCols = 2
    /\ X3.data # X.data

(* C2: SUMMA identity.  Once every cell is DONE its accumulator is its      *)
(* block of A*B, the sum over all k of A-tile(r,k) x B-tile(k,c), and the  *)
(* C the host gathers equals np.dot(A, B).                                 *)
C2_SummaIdentity ==
    /\ (strategy # "off" /\ \A cell \in Cells : phase[cell] = "DONE") =>
          \A cell \in Cells :
             \A i \in 1..params.Mt, l \in 1..params.Nt :
                acc[cell][(l - 1) * params.Mt + i] =
                   RowCol(A, B, cell[1] * params.Mt + i,
                          cell[2] * params.Nt + l, GridP * params.Kt)
    /\ spc = "gathered" => C = np_dot(A, B)

\* a pipelined run on a 2x2 grid with non-square tiles has gathered C
C2_Witness ==
    /\ spc = "gathered" /\ strategy = "pipelined"
    /\ GridP = 2 /\ params.Mt = 2 /\ params.Kt = 2 /\ params.Nt = 1

(* C3: the two strategies produce identical accumulators.  Under either    *)
(* strategy, and whatever the interleaving, the accumulator of a cell that *)
(* has completed n steps is the sum of the products of its first n steps   *)
(* taken in step order: a value that depends on A, B, P, the tile sizes    *)
(* and n only, hence the same for the sequential and the pipelined run.    *)
C3_StrategiesAgree ==
    strategy \in {"sequential", "pipelined"} =>
        \A cell \in Cells :
           \A i \in 1..params.Mt, l \in 1..params.Nt :
              acc[cell][(l - 1) * params.Mt + i] =
                 RowCol(A, B, cell[1] * params.Mt + i,
                        cell[2] * params.Nt + l, step[cell] * params.Kt)

\* a pipelined run on a 3x3 grid has completed every step in every cell
C3_Witness ==
    /\ strategy = "pipelined" /\ GridP = 3
    /\ \A cell \in Cells : phase[cell] = "DONE" /\ step[cell] = 3

HoldsOperands(cell, k) ==
    /\ onDevice = {"A", "B"} /\ spc = "launched"
    /\ OperandSource("A", cell, k) = [step |-> k, owner |-> <<cell[1], k>>]
    /\ OperandSource("B", cell, k) = [step |-> k, owner |-> <<k, cell[2]>>]

(* C5: data dependency of a compute step.  A cell in the COMPUTE of step k *)
(* holds the A-tile of (r,k) and the B-tile of (k,c), after LOAD_TILE, and *)
(* every completion of a step finds the cell holding them.                 *)
C5_ComputeDependency ==
    /\ [](\A cell \in Cells :
            phase[cell] = "COMPUTE" => HoldsOperands(cell, step[cell]))
    /\ [][\A cell \in Cells :
            (strategy' = strategy /\ step'[cell] # step[cell]) =>
                HoldsOperands(cell, step[cell])]_vars

\* cell (0,1) of a 2x2 grid computes step 0 on a received A-tile and its
\* own B-tile
C5_Witness ==
    /\ GridP = 2 /\ phase[<<0, 1>>] = "COMPUTE" /\ step[<<0, 1>>] = 0
    /\ buf["A"][<<0, 1>>]["C0"] = [step |-> 0, owner |-> <<0, 0>>]

(* C6: broadcast reachability on the row of PEs.  Once every PE has       *)
(* finished its P rounds, every PE's result is [(P-1)*N .. (P-1)*N+N-1],   *)
(* the data PE P-1 was seeded with; the host reads exactly that and the    *)
(* test ends with SUCCESS.                                                 *)
C6_BroadcastReachability ==
    /\ (bpc # "off" /\ \A p \in PEs : round[p] = bparams.P) =>
          \A p \in PEs : \A j \in 1..bparams.N :
             result[p][j] = (bparams.P - 1) * bparams.N + (j - 1)
    /\ bpc \in {"read", "stopped", "exit"} =>
          \A p \in PEs : \A j \in 1..bparams.N :
             hostResult[p][j] = (bparams.P - 1) * bparams.N + (j - 1)
    /\ bpc = "exit" => (bexit = 0 /\ bprinted = {"SUCCESS"})

\* the scenario P = 4, N = 6: all four PEs report [18 .. 23]
C6_Witness ==
    /\ bpc = "exit" /\ bparams = [P |-> 4, N |-> 6]
    /\ \A p \in 0..3 : hostResult[p] = <<18, 19, 20, 21, 22, 23>>

(* C7: the readback is a full barrier.  Once the host is past its last      *)
(* runtime call (the blocking readback of the result), the command stream  *)
(* is empty, every host-to-grid transfer has completed, every cell is DONE *)
(* and the result the host holds was read from cells that were all DONE.   *)
C7_ReadbackBarrier ==
    /\ (variant # "off" /\ hidx > Len(HostProgram(variant))) =>
          /\ cmdq = <<>>
          /\ Inputs(variant) \subseteq loaded
          /\ \A c \in HostCells : cellState[c] = "done"
          /\ Result(variant) \in DOMAIN hostBuf
    /\ (variant # "off" /\ Result(variant) \in DOMAIN hostBuf) =>
          \A c \in HostCells : hostBuf[Result(variant)][c] = "done"

\* the SUMMA host on a 2x2 grid has returned from the readback of C
C7_Witness ==
    /\ variant = "summa" /\ hparams.P = 2
    /\ hstate = "size_check"
    /\ "C" \in DOMAIN hostBuf

(* C8: element-count check.  When the grid holds a number of C elements    *)
(* other than P*P*Mt*Nt, the run ends with the size-mismatch error and     *)
(* neither the gather nor the validation is performed.                     *)
C8_MismatchDetected ==
    (variant = "summa" /\ deviceElems # expected_c_size) =>
        /\ hstate \notin {"gather", "verify"}
        /\ "SUCCESS" \notin printed
        /\ (hstate = "exit" /\ herror # "TransferError")
              => herror = "ValueError: C size mismatch"

(* C9: insufficient calibration data is not fatal.  When a direction has   *)
(* fewer than 3 samples the fit warns and yields null coefficients, and    *)
(* main runs to completion.                                                *)
C9_InsufficientDataNonFatal ==
    \A d \in Directions :
        (/\ apc \in {"complete", "crashed"}
         /\ n_samples[d] < 3) =>
            /\ apc = "complete"
            /\ d \in warned
            /\ coeffs[d] = None

(* C10: scheduler monotonicity.  Whenever (P-1)*broadcastTime exceeds the  *)
(* pipeline overhead the pipelined total is strictly below the sequential  *)
(* total; otherwise the winner is Sequential or sequential <= pipelined.   *)
C10_Monotone ==
    cpc = "done" =>
        LET b == cres.bcast_per_step
            P == cres.P
        IN  IF (P - 1) * b > PipelineOverhead * TimeScale
            THEN cres.pipelined_total < cres.sequential_total
            ELSE \/ cres.winner = "Sequential"
                 \/ cres.sequential_total <= cres.pipelined_total

\* a comparison whose savings exceed the overhead was made
C10_Witness ==
    /\ cpc = "done"
    /\ cres.P = 2
    /\ (cres.P - 1) * cres.bcast_per_step > PipelineOverhead * TimeScale
    /\ cres.pipelined_total < cres.sequential_total
    /\ cres.winner = "Pipelined"

-----------------------------------------------------------------------------
(* C11: decision rule.  For every small positive safety margin m (1 up to  *)
(* MaxMargin cycles) the reported winner is Pipelined if and only if       *)
(* (P-1)*broadcastTime > pipelineOverhead + m; in all other cases the      *)
(* winner is Sequential.                                                   *)
C11_DecisionRule ==
    cpc = "done" =>
        \A m \in 1..MaxMargin :
            /\ cres.winner \in {"Pipelined", "Sequential"}
            /\ cres.winner = "Pipelined" <=>
                   (cres.P - 1) * cres.bcast_per_step
                       > (PipelineOverhead + m) * TimeScale

\* a comparison on a 3x3 grid whose savings exceed the overhead and the
\* largest margin, and which selected the pipelined strategy
C11_Witness ==
    /\ cpc = "done"
    /\ cres.P = 3
    /\ cres.savings > MaxMargin * TimeScale
    /\ cres.winner = "Pipelined"

-----------------------------------------------------------------------------
\* the flat array a forward transform has produced, <<>> before it has run
Staged ==
    CASE lpc \in {"tiled", "gathered"} -> X3.data
      [] lpc = "prepared"               -> A_prepared.data
      [] OTHER                          -> <<>>

(* C12: the tile partition is exhaustive and non-overlapping.  Once a      *)
(* forward transform has run, the cell buffers have as many slots as the   *)
(* matrix has elements, every matrix element (the elements of a host       *)
(* matrix are pairwise distinct) sits in exactly one slot, and every slot  *)
(* holds exactly one matrix element, its value unaltered.                  *)
C12_TileBijection ==
    lpc \in {"tiled", "gathered", "prepared"} =>
        LET n == h * tileRows * w * tileCols
        IN  /\ Len(X.data) = n /\ Len(Staged) = n
            /\ lpc # "prepared" => X3.shape = <<h, w, tileRows * tileCols>>
            /\ \A i \in 1..n :
                  Cardinality({j \in 1..n : Staged[j] = X.data[i]}) = 1
            /\ \A j \in 1..n :
                  Cardinality({i \in 1..n : X.data[i] = Staged[j]}) = 1

\* a 2x2 grid of 2x2 tiles has been staged: 16 elements in 4 buffers, moved
C12_Witness ==
    /\ lpc = "tiled"
    /\ h = 2 /\ w = 2 /\ tileRows = 2 /\ tileCols = 2
    /\ Len(X3.data) = 16
    /\ X3.data[2] = X.data[5]

(* C13: the forward layout mapping.  Element (r, c) of the matrix is in    *)
(* the buffer of cell (r div tileRows, c div tileCols) at offset           *)
(* (c mod tileCols)*tileRows + (r mod tileRows): every tile is stored      *)
(* column-major, the buffers in row-major order of the cells.  The 4x4     *)
(* matrix 0..15 on a 2x2 grid gives [0,4,1,5], [2,6,3,7], [8,12,9,13],     *)
(* [10,14,11,15].  The GEMV driver's A_prepared follows the same mapping   *)
(* on its rectangular grid.                                                *)
C13_ForwardMapping ==
    lpc \in {"tiled", "gathered", "prepared"} =>
        LET R     == h * tileRows
            Ccols == w * tileCols
            len   == tileRows * tileCols
        IN  /\ \A r \in 0..(R - 1), c \in 0..(Ccols - 1) :
                  LET cell   == (r \div tileRows) * w + (c \div tileCols)
                      offset == (c % tileCols) * tileRows + (r % tileRows)
                  IN  Staged[cell * len + offset + 1] = X.data[r * Ccols + c + 1]
            /\ (/\ lpc # "prepared" /\ h = 2 /\ w = 2
                /\ X = Matrix(4, 4, 0, 1)) =>
                  X3.data = <<0, 4, 1, 5,  2, 6, 3, 7,
                              8, 12, 9, 13,  10, 14, 11, 15>>

\* the documented 4x4 example has been staged by the SUMMA driver
C13_Witness ==
    /\ lpc = "tiled"
    /\ h = 2 /\ w = 2 /\ tileRows = 2 /\ tileCols = 2
    /\ X = Matrix(4, 4, 0, 1)
    /\ SubSeq(X3.data, 1, 4) = <<0, 4, 1, 5>>

-----------------------------------------------------------------------------
\* lo + (lo+1) + ... + hi, and (n-1) + (n-2) + ... + 1 + 0: the hops to the
\* n-1 other cells of a row or column, from the cell at its end
RECURSIVE SumRange(_, _)
SumRange(lo, hi) ==
    IF lo > hi THEN 0
    ELSE IF lo = hi THEN lo
    ELSE LET mid == (lo + hi) \div 2
         IN  SumRange(lo, mid) + SumRange(mid + 1, hi)

HopSeries(n) == SumRange(0, n - 1)

(* C14: the hop-count identity.  For every grid dimension P the hops the   *)
(* performance model charges for one row-plus-column multicast step are    *)
(* 2*((P-1)+(P-2)+...+1+0) = P*(P-1), and no destination in a row or       *)
(* column of P cells is more than P-1 hops from the broadcasting cell.     *)
C14_HopCount ==
    cpc = "modelled" =>
        LET P == cres.P
        IN  /\ cres.receive_hops = 2 * HopSeries(P)
            /\ cres.receive_hops = P * (P - 1)
            /\ \A src \in 0..(P - 1), dst \in 0..(P - 1) :
                  (IF src > dst THEN src - dst ELSE dst - src) <= P - 1

\* the performance model has been evaluated for a 4x4 grid: 12 hops
C14_Witness ==
    /\ cpc = "modelled"
    /\ cres.P = 4
    /\ cres.receive_hops = 12
    /\ HopSeries(4) = 6

-----------------------------------------------------------------------------
\* |x - anchor| is within AnchorTolPct percent of anchor (x scaled by TimeScale)
About(x, anchor) ==
    LET a == anchor * TimeScale
        d == IF x > a THEN x - a ELSE a - x
    IN  d <= (AnchorTolPct * a) \div 100

(* C18: the concrete anchor.  For P=4, Mt=Kt=Nt=14 the estimates are the   *)
(* documented baseline values: GEMM 11,897 cycles per step, broadcast      *)
(* about 11,954 cycles per step, and the sequential total                  *)
(* P*(broadcast+GEMM) about 95,405 cycles.                                 *)
C18_Anchor ==
    (cpc = "done" /\ cargs = [P |-> 4, Mt |-> 14, Kt |-> 14, Nt |-> 14]) =>
        /\ cres.gemm_per_step = BaseGemm * TimeScale
        /\ About(cres.bcast_per_step, AnchorBroadcast)
        /\ About(cres.sequential_total, AnchorTotal)

(* C19: the sequential total has no overlap.  compare_versions'            *)
(* sequential_total and performance_model.total_cycles' kernel_cycles are  *)
(* both P*(broadcastTime + computeTime): each of the P steps is charged    *)
(* one broadcast and one compute.                                          *)
C19_NoOverlap ==
    /\ cpc = "done" =>
          cres.sequential_total
              = cres.P * (cres.bcast_per_step + cres.gemm_per_step)
    /\ cpc = "modelled" =>
          cres.kernel_cycles = cres.P * (cres.broadcast + cres.compute)

(* C20: the broadcast-bound regime.  When broadcastTime > computeTime the  *)
(* pipelined cost per step is max(broadcastTime, computeTime), so the      *)
(* predicted pipelined total is at least P*broadcastTime.                  *)
C20_BroadcastBound ==
    (cpc = "done" /\ cres.bcast_per_step > cres.gemm_per_step) =>
        cres.pipelined_total >= cres.P * cres.bcast_per_step

-----------------------------------------------------------------------------
\* cell d needs a broadcast that `cell`, stuck at step k, has yet to issue:
\* an operand of a later step j that `cell` owns
DependsOn(d, cell, k, j) ==
    /\ d # cell /\ j > k /\ j < GridP
    /\ \E m \in Operands : OwnerOf(m, d, j) = cell

\* a cell that never performs the compute of step k nor any later one
BlockedAt(cell, k) ==
    /\ step[cell] <= k
    /\ phase[cell] \notin {"COMPUTE", "DONE"} \/ step[cell] < k

(* C15: a stalled broadcast blocks forever.  Once a link fault has dropped *)
(* the broadcast of step k towards a cell, that cell never computes step k *)
(* and never reaches DONE, every cell that needs a later broadcast of that *)
(* cell never computes the step it needs it for, and the host's readback   *)
(* never completes; although every cell and the host keep running, the     *)
(* cell ends up waiting in WAIT_BROADCAST of the (first) step whose        *)
(* broadcast it lost and stays there.                                      *)
C15_StallBlocksForever ==
    /\ [](\A x \in lost :
            /\ BlockedAt(x[2], x[3])
            /\ \A d \in Cells, j \in 0..(GridP - 1) :
                  DependsOn(d, x[2], x[3], j) => BlockedAt(d, j)
            /\ spc # "gathered")
    /\ (lost # {})
          ~> [](\A x \in lost :
                  /\ phase[x[2]] = "WAIT_BROADCAST"
                  /\ \E y \in lost : y[2] = x[2] /\ step[x[2]] = y[3])

\* the A broadcast of step 1 towards cell (1,0) has been dropped; the cell
\* waits for it, its row neighbour (1,1) has finished, and the cell (0,0) of
\* its column waits for the B-tile of step 1 that (1,0) never broadcasts
C15_Witness ==
    /\ lost = {<<"A", <<1, 0>>, 1>>}
    /\ phase[<<1, 0>>] = "WAIT_BROADCAST" /\ step[<<1, 0>>] = 1
    /\ phase[<<1, 1>>] = "DONE"
    /\ phase[<<0, 0>>] = "WAIT_BROADCAST" /\ step[<<0, 0>>] = 1

-----------------------------------------------------------------------------
(* C16: failure exit.  In every host driver, once the validation has       *)
(* failed or a transfer (or the tiling) has raised, SUCCESS is not printed *)
(* and the process, when it ends, ends with a non-zero exit status;        *)
(* SUCCESS is printed only after the result has been read back and the     *)
(* tolerance check has passed.                                             *)
C16_FailureExit ==
    /\ (variant # "off" /\ herror # None) =>
          /\ "SUCCESS" \notin printed
          /\ hstate = "exit" => exitStatus # 0
    /\ (variant # "off" /\ "SUCCESS" \in printed) =>
          /\ herror = None
          /\ hidx > Len(HostProgram(variant))
          /\ Result(variant) \in DOMAIN hostBuf
          /\ hstate \in {"finally", "exit"}
    /\ (variant # "off" /\ hstate = "exit") =>
          (exitStatus = 0 <=> "SUCCESS" \in printed)

\* the original SUMMA driver, run with a binary built for other tile sizes,
\* has read C back, failed the validation and exited with status 1
C16_Witness ==
    /\ variant = "original" /\ ~BinaryMatches
    /\ "C" \in DOMAIN hostBuf
    /\ herror = "AssertionError"
    /\ hstate = "exit" /\ exitStatus = 1
    /\ "SUCCESS" \notin printed

(* C17: divisibility precondition.  A matrix whose row count or column     *)
(* count is not a multiple of the grid dimension is rejected with a fatal  *)
(* error before any host-to-grid transfer is issued: no transfer, launch   *)
(* or readback happens in such a run.                                      *)
C17_Divisibility ==
    (/\ variant \notin {"off", "broadcast_1d"}
     /\ (hparams.M % hparams.P # 0 \/ hparams.N % hparams.P # 0)) =>
        /\ hstate \in {"reshape", "finally", "exit"}
        /\ hidx = 1 /\ cmdq = <<>> /\ loaded = {}
        /\ DOMAIN hostBuf = {}
        /\ \A c \in HostCells : cellState[c] = "idle"
        /\ "SUCCESS" \notin printed
        /\ hstate # "reshape" =>
               herror = "ValueError: cannot reshape array"
        /\ hstate = "exit" => exitStatus # 0

\* the GEMV driver, given a 3 x 4 matrix for a 2 x 2 grid, has ended with
\* the ValueError of the reshape, no call of the runtime issued
C17_Witness ==
    /\ variant = "gemv"
    /\ hparams.P = 2 /\ hparams.M = 3 /\ hparams.N = 4
    /\ hstate = "exit" /\ herror = "ValueError: cannot reshape array"
    /\ exitStatus = 1 /\ hidx = 1 /\ cmdq = <<>>


\* C21: 48-bit timestamp reconstruction.  The counts the host rebuilds from a
\* cell's three 32-bit words are the counts the cell packed, for any start
\* and end in [0, 2^48), and they lie in [0, 2^48).
C21_Reconstruction ==
    tpc = "unpacked" =>
        \A c \in TimingCells :
            /\ time_start[c] = tsc[c].start
            /\ time_end[c] = tsc[c].end
            /\ InU48(time_start[c]) /\ InU48(time_end[c])

\* the same on a platform whose float conversions keep every bit pattern
C21_ReconstructionBitExact ==
    (tpc = "unpacked" /\ float_conv = "preserves") =>
        \A c \in TimingCells :
            /\ time_start[c] = tsc[c].start
            /\ time_end[c] = tsc[c].end


\* C26: clock-skew compensation.  For the cell at row py, column px the
\* reported start and end are the raw counts the host rebuilt minus one and
\* the same offset, the cell's raw reference count less (px + py); the
\* reported maximum cycle count is the largest adjusted end minus the
\* smallest adjusted start.
C26_SkewCompensation ==
    LET rawStart(c) == unpack_start(time_memcpy[c], float_conv)
        rawEnd(c) == unpack_end(time_memcpy[c], float_conv)
        rawRef(c) == unpack_start(time_ref_mem[c], float_conv)
        offset(c) == BigSub(rawRef(c), Big(0, c[2] + c[1]))
        adjStart(c) == BigSub(rawStart(c), offset(c))
        adjEnd(c) == BigSub(rawEnd(c), offset(c))
    IN  /\ tpc \in {"adjusted", "reported"} =>
            \A c \in TimingCells :
                time_start[c] = adjStart(c) /\ time_end[c] = adjEnd(c)
        /\ tpc = "reported" =>
            /\ \E c, d \in TimingCells :
                   max_cycle_count = BigSub(adjEnd(c), adjStart(d))
            /\ \A c, d \in TimingCells :
                   BigLeq(BigSub(adjEnd(c), adjStart(d)), max_cycle_count)

\* a 2 x 2 grid has been reported; the cell at row 1, column 0 started at
\* count 10 against a reference of 12, so its reported start is 10 - (12 - 1)
C26_Witness ==
    /\ tpc = "reported" /\ tP = 2
    /\ tsc[<<1, 0>>].start = Big(0, 10) /\ tsc[<<1, 0>>].ref = Big(0, 12)
    /\ time_start[<<1, 0>>] = Big(0, 0 - 1)
    /\ tsc[<<0, 0>>].ref = Big(0, 0)
    /\ max_cycle_count = Big(0, 46)


\* the spec's per-step compute cycles for given constants
ComputeForm(setupOverhead, perFmacsOverhead, Mt, Kt, Nt) ==
    setupOverhead + Kt * Nt * (1 + Mt) + Kt * Nt * perFmacsOverhead

\* C22: compute-cycle formula.  Per-step compute cycles are
\* setupOverhead + Kt*Nt*(1+Mt) + Kt*Nt*perFmacsOverhead with constants that
\* do not depend on the tile sizes: 120 and 43 in predict_compute_cycles,
\* whose total is P times this, and some pair of constants for compute_iter.
C22_ComputeForm ==
    /\ cpc = "predicted" =>
          /\ cres.cycles_per_iter =
                 ComputeForm(120, 43, cargs.Mt, cargs.Kt, cargs.Nt)
          /\ cres.total_cycles = cargs.P * cres.cycles_per_iter
    /\ cpc = "modelled" =>
          \E setupOverhead \in 0 .. MaxSetup, perFmacsOverhead \in 0 .. MaxPerFmacs :
              /\ cres.compute =
                     ComputeForm(setupOverhead, perFmacsOverhead,
                                 cargs.Mt, cargs.Kt, cargs.Nt)
              /\ \A c \in SmallConfigs :
                     compute_iter(c.Mt, c.Kt, c.Nt) =
                         ComputeForm(setupOverhead, perFmacsOverhead,
                                     c.Mt, c.Kt, c.Nt)

\* the half of C22 that is about predict_compute_cycles alone
C22_PredictForm ==
    cpc = "predicted" =>
        /\ cres.cycles_per_iter =
               ComputeForm(120, 43, cargs.Mt, cargs.Kt, cargs.Nt)
        /\ cres.total_cycles = cargs.P * cres.cycles_per_iter


\* the accumulator of `cell` after the compute steps 0 .. k-1, in that order
RECURSIVE AccumulatedThrough(_, _)
AccumulatedThrough(cell, k) ==
    IF k = 0 THEN [n \in 1..(params.Mt * params.Nt) |-> 0]
    ELSE TileFmac(AccumulatedThrough(cell, k - 1),
                  tileA[OwnerOf("A", cell, k - 1)],
                  tileB[OwnerOf("B", cell, k - 1)])

\* C23: accumulation order.  Under either strategy a cell performs its
\* compute steps in the order k = 0, ..., P-1, each exactly once: its step
\* counter only ever moves from k to k+1, and only by finishing the compute
\* of step k; a compute starts from WAIT_BROADCAST of the same step, so
\* never before the previous compute has finished; the accumulator holds
\* the products of the steps 0 .. k-1 and the cell is DONE exactly at k = P.
C23_AccumulationOrder ==
    /\ [](\A cell \in Cells :
            /\ step[cell] \in 0 .. GridP
            /\ (phase[cell] = "DONE") <=> (step[cell] = GridP)
            /\ acc[cell] = AccumulatedThrough(cell, step[cell]))
    /\ [][\A cell \in Cells :
            /\ step'[cell] # step[cell] =>
                  /\ step'[cell] = step[cell] + 1
                  /\ phase[cell] = "COMPUTE" \/ cell \notin observed
                  /\ phase'[cell] # "COMPUTE"
            /\ (phase'[cell] = "COMPUTE" /\ phase[cell] # "COMPUTE") =>
                  /\ phase[cell] = "WAIT_BROADCAST"
                  /\ step'[cell] = step[cell]]_vars

\* cell (1,2) of a pipelined 3x3 grid is in its last compute, with the
\* products of steps 0 and 1 in its accumulator
C23_Witness ==
    /\ GridP = 3 /\ strategy = "pipelined"
    /\ phase[<<1, 2>>] = "COMPUTE" /\ step[<<1, 2>>] = 2
    /\ acc[<<1, 2>>] = AccumulatedThrough(<<1, 2>>, 2)
    /\ acc[<<1, 2>>] # AccumulatedThrough(<<1, 2>>, 1)

\* C24: exclusive ownership of C-tiles.  A compute step of a cell changes
\* that cell's accumulator only: every other accumulator, every A-tile and
\* B-tile and the grid's configuration stay as they are; the gather of the
\* result reads the accumulators and modifies none of them.
C24_ExclusiveOwnership ==
    [][/\ \A cell \in Cells :
            step'[cell] # step[cell] =>
               /\ \A other \in Cells \ {cell} : acc'[other] = acc[other]
               /\ tileA' = tileA /\ tileB' = tileB
               /\ params' = params /\ strategy' = strategy
               /\ A' = A /\ B' = B
       /\ (spc # "gathered" /\ spc' = "gathered") =>
               acc' = acc /\ tileA' = tileA /\ tileB' = tileB]_vars

\* on a 2x2 grid cell (0,0) has computed a step, cell (1,1) has computed
\* none yet and its accumulator is still zero
C24_Witness ==
    /\ GridP = 2 /\ spc = "launched"
    /\ step[<<0, 0>>] >= 1 /\ step[<<1, 1>>] = 0
    /\ \E n \in DOMAIN acc[<<0, 0>>] : acc[<<0, 0>>][n] # 0
    /\ \A n \in DOMAIN acc[<<1, 1>>] : acc[<<1, 1>>][n] = 0


\* some step of the run can be taken: a host transfer or the launch is
\* due, or some cell can begin, start a compute or finish one
CanStep ==
    \/ spc \in {"stage", "loading"} /\ onDevice # {"A", "B"}
    \/ spc = "loading" /\ onDevice = {"A", "B"}
    \/ \E cell \in Cells :
          \/ spc = "launched" /\ phase[cell] = "LOAD_TILE"
          \/ /\ phase[cell] = "WAIT_BROADCAST"
             /\ \A m \in Operands : OperandReady(m, cell, step[cell])
          \/ phase[cell] = "COMPUTE"

\* C27: termination.  On every grid, under either strategy, when the host
\* and the cells keep running and every broadcast is delivered, every cell
\* eventually is DONE, with exactly P compute steps behind it, and stays
\* so; and no state has an unfinished cell and no step that can be taken.
C27_Termination ==
    /\ <>[](\A cell \in Cells : phase[cell] = "DONE" /\ step[cell] = GridP)
    /\ []((\E cell \in Cells : phase[cell] # "DONE") => CanStep)

\* every cell of a pipelined 2x2 grid is DONE after its two compute steps
C27_Witness ==
    /\ GridP = 2 /\ spc = "launched" /\ strategy = "pipelined"
    /\ \A cell \in Cells : phase[cell] = "DONE" /\ step[cell] = 2


\* C25: timeline grouping.  What parse_instr_log (key: the task id) and
\* parse_log_file (key: colour and link) return is the run-length grouping
\* of the matching lines in file order: the result is empty exactly when no
\* line matches; every matching line lies in exactly one range, a range of
\* its own key; a range starts and ends at the timestamps of matching
\* lines, the ranges follow each other in file order, and two consecutive
\* ranges never have the same key.
C25_TimelineGrouping ==
    ppc = "returned" =>
        LET wanted == IF parser = "instr" THEN "instr" ELSE "landing"
            Idx == {i \in 1 .. Len(log) : log[i].kind = wanted}
            ts(i) == 10 * log[i].stamp[1] + log[i].stamp[2]
            keyOf(r) == SubSeq(r, 3, Len(r))
            holds(j, i) == ranges[j][1] <= ts(i) /\ ts(i) <= ranges[j][2]
        IN  /\ (ranges = <<>>) <=> (Idx = {})
            /\ \A j \in DOMAIN ranges :
                  /\ Len(ranges[j]) = IF parser = "instr" THEN 3 ELSE 4
                  /\ \E i \in Idx : ts(i) = ranges[j][1]
                  /\ \E i \in Idx : ts(i) = ranges[j][2]
            /\ \A i \in Idx :
                  /\ Cardinality({j \in DOMAIN ranges : holds(j, i)}) = 1
                  /\ \A j \in DOMAIN ranges :
                        holds(j, i) => keyOf(ranges[j]) = log[i].id
            /\ \A j \in 1 .. Len(ranges) - 1 :
                  /\ ranges[j][2] < ranges[j + 1][1]
                  /\ keyOf(ranges[j]) # keyOf(ranges[j + 1])

\* parse_log_file has returned two ranges for a log of four lines: C1 from
\* link N at @11 and @13 around a line that does not match, then C1 from
\* link E at @14
C25_Witness ==
    /\ ppc = "returned" /\ parser = "link" /\ Len(log) = 4
    /\ log[2].kind = "other"
    /\ ranges = << <<11, 13, "C1", "N">>, <<14, 14, "C1", "E">> >>


\* the number of times the SUMMA driver has called runner.stop()
StopCalls == Cardinality({i \in DOMAIN calls : calls[i] = "stop"})

\* C28: device shutdown on every path.  In the SUMMA driver, once
\* runner.run() has returned, runner.stop() is called exactly once before
\* the process ends, whether the run succeeds, a transfer or the launch
\* raises, the size check fails or the comparison fails; it is the last
\* runtime call, and the driver cannot come to rest short of it.
C28_Shutdown ==
    variant = "summa" =>
        /\ StopCalls <= 1
        /\ StopCalls = 1 => (hstate = "exit" /\ calls[Len(calls)] = "stop")
        /\ hstate = "exit" => StopCalls = 1
        /\ hstate # "exit" => ENABLED HostNext

\* the comparison has failed after all six runtime calls of the try block;
\* runner.stop() was called and the process has ended with the error
C28_Witness ==
    /\ variant = "summa" /\ hstate = "exit"
    /\ herror = "AssertionError" /\ exitStatus = 1
    /\ calls = <<"h2d", "h2d", "launch", "d2h", "d2h", "d2h", "stop">>


C30_ComputeMonotone ==
    cpc = "modelled" =>
        /\ cres.compute = compute_iter(cargs.Mt, cargs.Kt, cargs.Nt)
        /\ cres.compute < compute_iter(cargs.Mt + 1, cargs.Kt, cargs.Nt)
        /\ cres.compute < compute_iter(cargs.Mt, cargs.Kt + 1, cargs.Nt)
        /\ cres.compute < compute_iter(cargs.Mt, cargs.Kt, cargs.Nt + 1)
        /\ \A k \in 1 .. MaxKt :
              compute_iter(cargs.Mt, k, cargs.Nt)
                  < compute_iter(cargs.Mt, k + 1, cargs.Nt)

====
